---------------------------- MODULE Spec2Model ----------------------------
(***************************************************************************)
(* Model of the audio-to-chord inference core of a-minor-prediction:       *)
(*   backend/app/preprocessing/vocabulary.py  (ChordVocabulary)            *)
(*   backend/app/ml/feature_extractor.py      (segments, waveform)         *)
(*   backend/app/ml/predictor.py              (ChordPredictor)             *)
(*                                                                         *)
(* Chord strings are sequences of one-character strings.  Python floats    *)
(* are IEEE-754 binary64 values; they are modelled exactly, as multiples   *)
(* of 2^-FracBits held in arbitrary-precision naturals (sequences of       *)
(* 15-bit limbs, least significant first), every arithmetic result         *)
(* rounded to 53 significant bits, ties to even.                           *)
(***************************************************************************)
EXTENDS Integers, Sequences, FiniteSets, TLC

(***************************************************************************)
(* Arbitrary-precision naturals.                                           *)
(***************************************************************************)
LimbBase == 2 ^ 15

RECURSIVE BNorm(_)
BNorm(a) ==
    IF a = << >> THEN << >>
    ELSE IF a[Len(a)] = 0 THEN BNorm(SubSeq(a, 1, Len(a) - 1))
    ELSE a

RECURSIVE BFromInt(_)
BFromInt(n) ==
    IF n = 0 THEN << >>
    ELSE << n % LimbBase >> \o BFromInt(n \div LimbBase)

RECURSIVE BToInt(_)
BToInt(a) ==
    IF a = << >> THEN 0
    ELSE a[1] + LimbBase * BToInt(Tail(a))

Limb(a, i) == IF i <= Len(a) THEN a[i] ELSE 0

RECURSIVE BAddC(_, _, _, _)
BAddC(a, b, i, carry) ==
    IF i > Len(a) /\ i > Len(b)
    THEN IF carry = 0 THEN << >> ELSE << carry >>
    ELSE LET s == Limb(a, i) + Limb(b, i) + carry
         IN  << s % LimbBase >> \o BAddC(a, b, i + 1, s \div LimbBase)

BAdd(a, b) == BAddC(a, b, 1, 0)

RECURSIVE BSubC(_, _, _, _)
BSubC(a, b, i, borrow) ==
    IF i > Len(a) THEN << >>
    ELSE LET d == Limb(a, i) - Limb(b, i) - borrow
         IN  IF d < 0
             THEN << d + LimbBase >> \o BSubC(a, b, i + 1, 1)
             ELSE << d >> \o BSubC(a, b, i + 1, 0)

\* a - b for a >= b
BSub(a, b) == BNorm(BSubC(a, b, 1, 0))

RECURSIVE BCmpFrom(_, _, _)
BCmpFrom(a, b, i) ==
    IF i = 0 THEN 0
    ELSE IF a[i] < b[i] THEN -1
    ELSE IF a[i] > b[i] THEN 1
    ELSE BCmpFrom(a, b, i - 1)

\* -1, 0, 1 as a < b, a = b, a > b (both normalised)
BCmp(a, b) ==
    IF Len(a) < Len(b) THEN -1
    ELSE IF Len(a) > Len(b) THEN 1
    ELSE BCmpFrom(a, b, Len(a))

RECURSIVE BMulSmallC(_, _, _, _)
BMulSmallC(a, k, i, carry) ==
    IF i > Len(a)
    THEN IF carry = 0 THEN << >> ELSE << carry >>
    ELSE LET p == a[i] * k + carry
         IN  << p % LimbBase >> \o BMulSmallC(a, k, i + 1, p \div LimbBase)

\* a * k for 0 <= k < LimbBase
BMulSmall(a, k) == BNorm(BMulSmallC(a, k, 1, 0))

Zeros(n) == [i \in 1..n |-> 0]

RECURSIVE BMulFrom(_, _, _)
BMulFrom(a, b, i) ==
    IF i > Len(b) THEN << >>
    ELSE BAdd(BNorm(Zeros(i - 1) \o BMulSmall(a, b[i])), BMulFrom(a, b, i + 1))

BMul(a, b) == BNorm(BMulFrom(a, b, 1))

\* <<quotient limbs from position i down, remainder>>, k < LimbBase
RECURSIVE BDivSmallFrom(_, _, _, _)
BDivSmallFrom(a, k, i, rem) ==
    IF i = 0 THEN [q |-> << >>, r |-> rem]
    ELSE LET cur  == rem * LimbBase + a[i]
             rest == BDivSmallFrom(a, k, i - 1, cur % k)
         IN  [q |-> rest.q \o << cur \div k >>, r |-> rest.r]

BDivSmall(a, k) ==
    LET res == BDivSmallFrom(a, k, Len(a), 0)
    IN  [q |-> BNorm(res.q), r |-> res.r]

BShl(a, n) ==
    IF a = << >> THEN << >>
    ELSE Zeros(n \div 15) \o BMulSmall(a, 2 ^ (n % 15))

BShr(a, n) ==
    IF n \div 15 >= Len(a) THEN << >>
    ELSE BDivSmall(SubSeq(a, n \div 15 + 1, Len(a)), 2 ^ (n % 15)).q

RECURSIVE IntBitLen(_)
IntBitLen(n) == IF n = 0 THEN 0 ELSE 1 + IntBitLen(n \div 2)

BBitLen(a) ==
    IF a = << >> THEN 0
    ELSE 15 * (Len(a) - 1) + IntBitLen(a[Len(a)])

BIsOdd(a) == a # << >> /\ a[1] % 2 = 1

(***************************************************************************)
(* IEEE-754 binary64 values on the grid of multiples of 2^-FracBits.       *)
(* A value is [neg, mag]: mag is the magnitude in units of 2^-FracBits.    *)
(* Every value the model computes has magnitude 0 or in [2^-27, 2^31), so  *)
(* its 53-bit significand lies on the grid and nothing is lost.            *)
(***************************************************************************)
FracBits == 80

MantBits == 53

\* round a natural to MantBits significant bits, ties to even
RoundMant(a) ==
    LET l == BBitLen(a)
    IN  IF l <= MantBits THEN a
        ELSE LET s    == l - MantBits
                 q    == BShr(a, s)
                 rem  == BSub(a, BShl(q, s))
                 half == BShl(<< 1 >>, s - 1)
                 c    == BCmp(rem, half)
                 up   == c = 1 \/ (c = 0 /\ BIsOdd(q))
             IN  BShl(IF up THEN BAdd(q, << 1 >>) ELSE q, s)

FZero == [neg |-> FALSE, mag |-> << >>]

Abs(n) == IF n < 0 THEN -n ELSE n

\* float(n) for an int n
FInt(n) == [neg |-> n < 0, mag |-> BShl(BFromInt(Abs(n)), FracBits)]

\* the float nearest to n / k (n, k ints, 0 < k < 2^16): the value of the
\* literal or of the true division n / k
FRatio(n, k) ==
    LET d  == BDivSmall(BShl(BFromInt(Abs(n)), 2 * FracBits), k)
        q2 == BAdd(BShl(d.q, 1), IF d.r = 0 THEN << >> ELSE << 1 >>)
    IN  [neg |-> n < 0, mag |-> BShr(RoundMant(q2), FracBits + 1)]

FNeg(x) == [neg |-> (~x.neg) /\ x.mag # << >>, mag |-> x.mag]

\* the real number x + y
ExactAdd(x, y) ==
    IF x.neg = y.neg
    THEN [neg |-> x.neg, mag |-> BNorm(BAdd(x.mag, y.mag))]
    ELSE LET c == BCmp(x.mag, y.mag)
         IN  IF c = 0 THEN FZero
             ELSE IF c = 1
             THEN [neg |-> x.neg, mag |-> BSub(x.mag, y.mag)]
             ELSE [neg |-> y.neg, mag |-> BSub(y.mag, x.mag)]

\* x + y
FAdd(x, y) ==
    LET sum == ExactAdd(x, y)
    IN  [neg |-> sum.neg, mag |-> RoundMant(sum.mag)]

\* x * y
FMul(x, y) ==
    LET m == BShr(RoundMant(BMul(x.mag, y.mag)), FracBits)
    IN  [neg |-> (x.neg # y.neg) /\ m # << >>, mag |-> m]

\* x < y, x <= y
FLt(x, y) ==
    IF x.neg /\ ~y.neg THEN TRUE
    ELSE IF ~x.neg /\ y.neg THEN FALSE
    ELSE IF x.neg THEN BCmp(x.mag, y.mag) = 1
    ELSE BCmp(x.mag, y.mag) = -1

FLe(x, y) == x = y \/ FLt(x, y)

\* int(x): truncation toward zero
FTrunc(x) ==
    LET n == BToInt(BShr(x.mag, FracBits))
    IN  IF x.neg THEN -n ELSE n

(***************************************************************************)
(* ChordVocabulary (preprocessing/vocabulary.py).                          *)
(***************************************************************************)
ROOTS ==
    << <<"C">>, <<"C", "#">>, <<"D">>, <<"D", "#">>, <<"E">>, <<"F">>,
       <<"F", "#">>, <<"G">>, <<"G", "#">>, <<"A">>, <<"A", "#">>, <<"B">> >>

\* the dict in insertion order, which is the order .items() iterates in
ROOT_ALIASES ==
    << [alias |-> <<"D", "b">>, canonical |-> <<"C", "#">>],
       [alias |-> <<"E", "b">>, canonical |-> <<"D", "#">>],
       [alias |-> <<"F", "b">>, canonical |-> <<"E">>],
       [alias |-> <<"G", "b">>, canonical |-> <<"F", "#">>],
       [alias |-> <<"A", "b">>, canonical |-> <<"G", "#">>],
       [alias |-> <<"B", "b">>, canonical |-> <<"A", "#">>],
       [alias |-> <<"C", "b">>, canonical |-> <<"B">>] >>

QUALITIES ==
    << <<"m", "a", "j">>, <<"m", "i", "n">>, <<"d", "i", "m">>,
       <<"a", "u", "g">>, <<"7">>, <<"m", "a", "j", "7">>,
       <<"m", "i", "n", "7">>, <<"d", "i", "m", "7">> >>

\* the sentinel label "N"
NoChord == <<"N">>

\* str.startswith
StartsWith(s, p) == Len(p) <= Len(s) /\ SubSeq(s, 1, Len(p)) = p

\* the "in" operator on strings: p occurs in s
Contains(s, p) ==
    \E i \in 1..(Len(s) - Len(p) + 1) : SubSeq(s, i, i + Len(p) - 1) = p

\* s[n:]
DropPrefix(s, n) == SubSeq(s, n + 1, Len(s))

UpperCase == <<"A", "B", "C", "D", "E", "F", "G", "H", "I", "J", "K", "L", "M",
               "N", "O", "P", "Q", "R", "S", "T", "U", "V", "W", "X", "Y", "Z">>

LowerCase == <<"a", "b", "c", "d", "e", "f", "g", "h", "i", "j", "k", "l", "m",
               "n", "o", "p", "q", "r", "s", "t", "u", "v", "w", "x", "y", "z">>

LowerChar(c) ==
    IF \E i \in 1..Len(UpperCase) : UpperCase[i] = c
    THEN LowerCase[CHOOSE i \in 1..Len(UpperCase) : UpperCase[i] = c]
    ELSE c

\* str.lower
Lower(s) == [i \in 1..Len(s) |-> LowerChar(s[i])]

\* a dict built by a sequence of assignments d[key] = val: the last
\* assignment to a key is the one that stays
DictOf(items) ==
    [key \in {items[k].key : k \in 1..Len(items)} |->
        LET last == CHOOSE k \in 1..Len(items) :
                        /\ items[k].key = key
                        /\ \A m \in (k + 1)..Len(items) : items[m].key # key
        IN  items[last].val]

\* the chords in the order the nested loop of __init__ visits them: for
\* each root in ROOTS, for each quality in QUALITIES
LoopChords ==
    [k \in 1..(Len(ROOTS) * Len(QUALITIES)) |->
        ROOTS[((k - 1) \div Len(QUALITIES)) + 1]
            \o QUALITIES[((k - 1) % Len(QUALITIES)) + 1]]

\* __init__ with idx incremented before the assignments instead of after
BuildTableIncrementFirst(first) ==
    [c2i |-> DictOf(<< [key |-> NoChord, val |-> 0] >> \o
                    [k \in 1..Len(LoopChords) |->
                        [key |-> LoopChords[k], val |-> first + k]]),
     i2c |-> DictOf(<< [key |-> 0, val |-> NoChord] >> \o
                    [k \in 1..Len(LoopChords) |->
                        [key |-> first + k, val |-> LoopChords[k]]])]

\* __init__: both dicts start with "N" at 0; idx starts at first and goes up
\* by one per visited chord, which is assigned in both dicts
BuildTable(first) ==
    [c2i |-> DictOf(<< [key |-> NoChord, val |-> 0] >> \o
                    [k \in 1..Len(LoopChords) |->
                        [key |-> LoopChords[k], val |-> first + k - 1]]),
     i2c |-> DictOf(<< [key |-> 0, val |-> NoChord] >> \o
                    [k \in 1..Len(LoopChords) |->
                        [key |-> first + k - 1, val |-> LoopChords[k]]])]

NewVocabulary == BuildTable(1)

VARIABLES
    \* one ChordVocabulary and the calls made on it
    chord_to_idx,   \* self.chord_to_idx
    idx_to_chord,   \* self.idx_to_chord
    num_classes,    \* self.num_classes
    chordArg,       \* the chord string of the calls recorded below
    normalized,     \* [set, val]: result of normalize_chord(chordArg)
    encoded,        \* [set, val]: result of encode(chordArg)
    decoded,        \* [set, arg, val]: the last decode(arg)
    chordArg2,      \* the chord string of a second encode call
    encoded2,       \* [set, val]: result of encode(chordArg2)
    \* one get_segment_features call
    segAudioLen,    \* len(audio)
    segStart,       \* start_time
    segDuration,    \* duration (FZero for None)
    segResult,      \* [called, absent, start, end]
    \* one predict_audio call of a ChordPredictor
    weights,        \* what the loaded classifier computes
    audioLen,       \* len(audio)
    hop_duration,   \* hop_duration
    duration,       \* the local duration
    t,              \* the local t
    predictions,    \* the local predictions
    classified,     \* the sample ranges handed to the classifier so far
    ppc,            \* "idle", "loop" or "done"
    \* one generate_waveform_data call
    wavAudioLen,    \* len(audio)
    wavLevel,       \* rms * 1000 of every non-empty stretch, in hundredths
    num_points,     \* num_points
    samples_per_point,
    wavDuration,    \* the local duration
    wavI,           \* the loop variable i
    waveform_data,  \* the local waveform_data
    buckets,        \* the [start_idx, end_idx) of the iterations so far
    wpc,            \* "idle", "loop", "done" or "raised"
    \* one predict_segment call made directly on a ChordPredictor
    psResult,       \* [called, chord, confidence, invoked]
    \* one estimate_bpm call
    bpmTracker,     \* what librosa.beat.beat_track does: [kind, tempo]
    bpmResult,      \* [called, raised, val]
    \* one file written by save, and one vocabulary made from it by load
    vocabFile,      \* [written, chord_to_idx, idx_to_chord]: the JSON text
    loaded,         \* [done, raised, chord_to_idx, idx_to_chord, num_classes]
    loadedEncoded,  \* [set, val]: encode(chordArg) on the loaded vocabulary
    loadedDecoded,  \* [set, arg, val]: the last decode(arg) on it
    \* one upload_audio request, and the stores it writes to
    upFilename,     \* file.filename
    upFault,        \* the step of this request that raises ("none": no step)
    upc,            \* the position of the request
    payloadRead,    \* whether file.read() has returned the payload
    audioDecoded,   \* whether load_audio_from_bytes has returned the signal
    track,          \* the local AudioTrackEntry: [status, bpm]
    chord_list,     \* the local chord_list
    s3_objects,     \* the keys stored in the bucket
    track_table,    \* the track records in the table: track id -> record
    prediction_table, \* the prediction entries: track id -> chords
    upResponse,     \* [status, detail, chords]: 0 until the request ends
    \* the module global of ml/predictor.py and the calls made on it
    _predictor,     \* the global _predictor: None or a ChordPredictor
    constructed,    \* how many times ChordPredictor(...) has returned
    returns,        \* what every load_model / get_predictor call returned
    \* the upload_audio coroutines of one event loop
    running,        \* the coroutine that has the loop, or Nobody
    coroutines,     \* request -> [pc, inside, windows, done]
    passes,         \* the request of every pass of a predict_audio loop
    \* the tables behind the track and playlist requests
    tracks,         \* track id -> [user_id, playlist_id]
    playlists,      \* playlist id -> [user_id, track_ids]
    issued,         \* how many uuids have been issued
    removed,        \* the track deletions: [track, owner, by]
    reply           \* what the last request returned

vocabVars ==
    << chord_to_idx, idx_to_chord, num_classes, chordArg, normalized,
       encoded, decoded, chordArg2, encoded2 >>

segVars == << segAudioLen, segStart, segDuration, segResult >>

predVars ==
    << weights, audioLen, hop_duration, duration, t, predictions,
       classified, ppc >>

waveVars ==
    << wavAudioLen, wavLevel, num_points, samples_per_point, wavDuration,
       wavI, waveform_data, buckets, wpc >>

fileVars == << vocabFile, loaded, loadedEncoded, loadedDecoded >>

uploadVars ==
    << upFilename, upFault, upc, payloadRead, audioDecoded, track,
       chord_list, s3_objects, track_table, prediction_table, upResponse >>

loaderVars == << _predictor, constructed, returns >>

loopVars == << running, coroutines, passes >>

storeVars == << tracks, playlists, issued, removed, reply >>

srvVars == << loaderVars, loopVars, storeVars >>

appVars ==
    << psResult, bpmTracker, bpmResult, fileVars, uploadVars, srvVars >>

vars == << vocabVars, segVars, predVars, waveVars, appVars >>

\* chord.replace(alias, canonical, 1) in place of the prefix test: the first
\* alias found anywhere in chord is replaced where it first occurs
RECURSIVE ResolveAliasAnywhere(_, _)
ResolveAliasAnywhere(chord, i) ==
    IF i > Len(ROOT_ALIASES) THEN chord
    ELSE IF Contains(chord, ROOT_ALIASES[i].alias)
    THEN LET a  == ROOT_ALIASES[i].alias
             at == CHOOSE j \in 1..Len(chord) :
                       /\ SubSeq(chord, j, j + Len(a) - 1) = a
                       /\ \A m \in 1..(j - 1) :
                              SubSeq(chord, m, m + Len(a) - 1) # a
         IN  SubSeq(chord, 1, at - 1) \o ROOT_ALIASES[i].canonical
                 \o DropPrefix(chord, at + Len(a) - 1)
    ELSE ResolveAliasAnywhere(chord, i + 1)

\* for alias, canonical in ROOT_ALIASES.items(): the first alias that is a
\* prefix is replaced by its canonical spelling, then break
RECURSIVE ResolveAliasFrom(_, _)
ResolveAliasFrom(chord, i) ==
    IF i > Len(ROOT_ALIASES) THEN chord
    ELSE IF StartsWith(chord, ROOT_ALIASES[i].alias)
    THEN ROOT_ALIASES[i].canonical
             \o DropPrefix(chord, Len(ROOT_ALIASES[i].alias))
    ELSE ResolveAliasFrom(chord, i + 1)

ResolveAlias(chord) == ResolveAliasFrom(chord, 1)

\* sorted(ROOTS, key=len, reverse=True): a stable sort, so roots of equal
\* length keep their order
RECURSIVE ByLenDesc(_, _)
ByLenDesc(seq, n) ==
    IF n = 0 THEN << >>
    ELSE SelectSeq(seq, LAMBDA r : Len(r) = n) \o ByLenDesc(seq, n - 1)

\* the roots tried in the order of ROOTS, unsorted
SortedRootsUnsorted == ROOTS

SortedRoots ==
    ByLenDesc(ROOTS,
        CHOOSE n \in 1..2 :
            /\ \E i \in 1..Len(ROOTS) : Len(ROOTS[i]) = n
            /\ \A i \in 1..Len(ROOTS) : Len(ROOTS[i]) <= n)

\* the first root of SortedRoots that is a prefix of chord; << >> for None
RECURSIVE FindRootFrom(_, _)
FindRootFrom(chord, i) ==
    IF i > Len(SortedRoots) THEN << >>
    ELSE IF StartsWith(chord, SortedRoots[i]) THEN SortedRoots[i]
    ELSE FindRootFrom(chord, i + 1)

FindRoot(chord) == FindRootFrom(chord, 1)

\* the if / elif chain on suffix = rest.lower() and on rest = chord[len(root):]
QualityOf(rest) ==
    LET suffix == Lower(rest)
    IN  IF Contains(suffix, <<"m", "a", "j", "7">>) \/ Contains(rest, <<"M", "7">>)
        THEN <<"m", "a", "j", "7">>
        ELSE IF Contains(suffix, <<"m", "i", "n", "7">>)
                \/ Contains(suffix, <<"m", "7">>)
        THEN <<"m", "i", "n", "7">>
        ELSE IF Contains(suffix, <<"d", "i", "m", "7">>)
        THEN <<"d", "i", "m", "7">>
        ELSE IF Contains(suffix, <<"7">>) THEN <<"7">>
        ELSE IF Contains(suffix, <<"d", "i", "m">>) THEN <<"d", "i", "m">>
        ELSE IF Contains(suffix, <<"a", "u", "g">>) THEN <<"a", "u", "g">>
        ELSE IF Contains(suffix, <<"m", "i", "n">>) \/ Contains(suffix, <<"m">>)
        THEN <<"m", "i", "n">>
        ELSE <<"m", "a", "j">>

normalize_chord(chord) ==
    IF chord = << >> \/ chord \in {<<"N">>, <<"X">>, << >>} THEN NoChord
    ELSE LET resolved == ResolveAlias(chord)
             root     == FindRoot(resolved)
         IN  IF root = << >> THEN NoChord
             ELSE root \o QualityOf(DropPrefix(resolved, Len(root)))

\* dict.get(key, default)
DictGet(d, key, default) == IF key \in DOMAIN d THEN d[key] ELSE default

encode(chord) == DictGet(chord_to_idx, normalize_chord(chord), 0)

\* decode with the index taken one too high
decode_off_by_one(idx) == DictGet(idx_to_chord, idx + 1, NoChord)

\* decode as self.idx_to_chord.get(idx): no default label
decode_no_default(idx) == DictGet(idx_to_chord, idx, << >>)

decode(idx) == DictGet(idx_to_chord, idx, NoChord)

(***************************************************************************)
(* AudioFeatureExtractor.get_segment_features (ml/feature_extractor.py).   *)
(* The samples of a signal are not modelled, only their number: a feature  *)
(* tensor is identified by the sample range it was computed from.          *)
(***************************************************************************)
(* ChordVocabulary.save and load: the JSON file holds chord_to_idx with    *)
(* its integers as decimal text, and idx_to_chord under the keys str(k).   *)
(***************************************************************************)
Digits == << "0", "1", "2", "3", "4", "5", "6", "7", "8", "9" >>

RECURSIVE NatToStr(_)
NatToStr(n) ==
    IF n < 10 THEN << Digits[n + 1] >>
    ELSE NatToStr(n \div 10) \o << Digits[(n % 10) + 1] >>

\* str(n), and the text json.dump writes for the integer n
IntToStr(n) == IF n < 0 THEN << "-" >> \o NatToStr(0 - n) ELSE NatToStr(n)

DigitVal(c) == CHOOSE d \in 0..9 : Digits[d + 1] = c

RECURSIVE StrToNat(_)
StrToNat(str) ==
    IF str = << >> THEN 0
    ELSE 10 * StrToNat(SubSeq(str, 1, Len(str) - 1)) + DigitVal(str[Len(str)])

\* int(str), and the integer json.load reads from decimal text
StrToInt(str) ==
    IF str # << >> /\ str[1] = "-" THEN 0 - StrToNat(Tail(str))
    ELSE StrToNat(str)

\* the dict d with every key k replaced by conv(k)
MapKeys(d, conv(_)) ==
    [key \in {conv(k) : k \in DOMAIN d} |->
        d[CHOOSE k \in DOMAIN d : conv(k) = key]]

\* the dict d with every value v replaced by conv(v)
MapValues(d, conv(_)) == [key \in DOMAIN d |-> conv(d[key])]

\* a key conversion that reads only the last digit of the key
LoadedKeyLastDigit(k) == DigitVal(k[Len(k)])

\* int(k) for a key of data["idx_to_chord"]
LoadedKey(k) == StrToInt(k)

\* save: what json.dump writes
SavedFile(c2i, i2c) ==
    [written      |-> TRUE,
     chord_to_idx |-> MapValues(c2i, IntToStr),
     idx_to_chord |-> MapKeys(i2c, IntToStr)]

\* load: a new vocabulary with the tables of the file
LoadedVocabulary(file) ==
    [done         |-> TRUE,
     raised       |-> FALSE,
     chord_to_idx |-> MapValues(file.chord_to_idx, StrToInt),
     idx_to_chord |-> MapKeys(file.idx_to_chord, LoadedKey),
     num_classes  |-> Cardinality(DOMAIN file.chord_to_idx)]

(***************************************************************************)
sample_rate == 22050

segment_duration == FRatio(1, 2)

Min(a, b) == IF a < b THEN a ELSE b

Max(a, b) == IF a > b THEN a ELSE b

\* len(audio[start:end]) for a signal of len samples
SliceLen(len, start, end) ==
    LET from == IF start < 0 THEN Max(len + start, 0) ELSE Min(start, len)
        to   == IF end < 0 THEN Max(len + end, 0) ELSE Min(end, len)
    IN  Max(to - from, 0)

Absent == [absent |-> TRUE, start |-> 0, end |-> 0]

\* duration or self.segment_duration (None and 0.0 are both falsy)
EffectiveDuration(dur) == IF dur.mag = << >> THEN segment_duration ELSE dur

\* the bounds checks and the slice, for the sample indices of the window
SegmentBetween(len, d, start_sample, end_sample) ==
    IF start_sample < 0 \/ end_sample > len THEN Absent
    ELSE IF SliceLen(len, start_sample, end_sample)
                < FTrunc(FMul(FMul(d, FInt(sample_rate)), FRatio(9, 10)))
    THEN Absent
    ELSE [absent |-> FALSE, start |-> start_sample, end |-> end_sample]

\* start_sample = int(start_time * sr), end_sample = int((start_time +
\* duration) * sr) for the effective duration d
SegmentOfDuration(len, start_time, d) ==
    SegmentBetween(len, d,
                   FTrunc(FMul(start_time, FInt(sample_rate))),
                   FTrunc(FMul(FAdd(start_time, d), FInt(sample_rate))))

get_segment_features(len, start_time, dur) ==
    SegmentOfDuration(len, start_time, EffectiveDuration(dur))

(***************************************************************************)
(* ChordPredictor (ml/predictor.py).                                       *)
(***************************************************************************)
\* round(x, digits) for scale = 10^digits: the float nearest to the decimal
\* that x rounds to, ties to even
RoundDecimal(x, scale) ==
    LET scaled == BMulSmall(x.mag, scale)
        q      == BShr(scaled, FracBits)
        rem    == BSub(scaled, BShl(q, FracBits))
        c      == BCmp(rem, BShl(<< 1 >>, FracBits - 1))
        up     == c = 1 \/ (c = 0 /\ BIsOdd(q))
        n      == BToInt(IF up THEN BAdd(q, << 1 >>) ELSE q)
    IN  FRatio(IF x.neg THEN 0 - n ELSE n, scale)

\* the classifier without the softmax: a score that is not a probability
ClassifyNoSoftmax(w, features) ==
    [predicted  |-> (w + 7 * (features.start \div 2205)) % 97,
     confidence |-> FRatio(11 + ((331 * w + features.end) % 990), 100)]

\* self.model(features_tensor), softmax, max: the class and probability the
\* classifier gives a feature tensor, a function of its weights and of the
\* tensor alone
Classify(w, features) ==
    [predicted  |-> (w + 7 * (features.start \div 2205)) % 97,
     confidence |-> FRatio(11 + ((331 * w + features.end) % 990), 1000)]

\* predict_segment without the test for None: the model is run on whatever
\* get_segment_features returned
PredictFeaturesNoGuard(features) ==
    [chord      |-> decode(Classify(weights, features).predicted),
     confidence |-> Classify(weights, features).confidence,
     features   |-> features,
     invoked    |-> TRUE]

\* what predict_segment returns for the features of the segment: ("N", 0.0)
\* when they are None, else the decoded class and its probability; invoked
\* tells whether self.model was called
PredictFeatures(features) ==
    IF features.absent
    THEN [chord |-> NoChord, confidence |-> FZero, features |-> features,
          invoked |-> FALSE]
    ELSE [chord      |-> decode(Classify(weights, features).predicted),
          confidence |-> Classify(weights, features).confidence,
          features   |-> features,
          invoked    |-> TRUE]

predict_segment(len, start_time, dur) ==
    PredictFeatures(get_segment_features(len, start_time, dur))

\* a while condition that leaves the hop out: t <= duration
LoopGuardWithoutHop == FLe(t, duration)

\* the while condition of predict_audio
LoopGuard == FLe(FAdd(t, hop_duration), duration)

(***************************************************************************)
(* estimate_bpm (ml/feature_extractor.py).  A tempo is [cls, val] with cls *)
(* "finite", "nan" or "inf"; the tracker either raises, returns a scalar   *)
(* tempo (tempo is a sequence of one) or an ndarray of tempos.             *)
(***************************************************************************)
\* round(x) for a finite float x: the nearest integer, ties to even
RoundHalfEven(x) ==
    LET q    == BShr(x.mag, FracBits)
        rem  == BSub(x.mag, BShl(q, FracBits))
        c    == BCmp(rem, BShl(<< 1 >>, FracBits - 1))
        up   == c = 1 \/ (c = 0 /\ BIsOdd(q))
        n    == BToInt(IF up THEN BAdd(q, << 1 >>) ELSE q)
    IN  IF x.neg THEN 0 - n ELSE n

\* the body of the try block: tempo[0] of an empty ndarray raises
\* IndexError, round of a nan raises ValueError and of an infinity
\* OverflowError
TryBeatTrack(tracker) ==
    IF tracker.kind = "raises" \/ tracker.tempo = << >>
    THEN [raised |-> TRUE, val |-> 0]
    ELSE IF tracker.tempo[1].cls # "finite"
    THEN [raised |-> TRUE, val |-> 0]
    ELSE [raised |-> FALSE, val |-> RoundHalfEven(tracker.tempo[1].val)]

\* estimate_bpm without the except clause
estimate_bpm_no_except(tracker) == TryBeatTrack(tracker)

\* except Exception: return 120
estimate_bpm(tracker) ==
    IF TryBeatTrack(tracker).raised
    THEN [raised |-> FALSE, val |-> 120]
    ELSE TryBeatTrack(tracker)

(***************************************************************************)
(* upload_audio (routers/audio.py).                                        *)
(***************************************************************************)
allowed_extensions ==
    {<< "m", "p", "3" >>,
     << "w", "a", "v" >>,
     << "f", "l", "a", "c" >>,
     << "a", "i", "f", "f" >>,
     << "o", "g", "g" >>,
     << "m", "4", "a" >>}

\* the index of the last "." of filename, 0 when there is none
LastDot(filename) ==
    IF \E i \in 1..Len(filename) : filename[i] = "."
    THEN CHOOSE i \in 1..Len(filename) :
             /\ filename[i] = "."
             /\ \A j \in (i + 1)..Len(filename) : filename[j] # "."
    ELSE 0

\* a check that looks for an allowed extension anywhere in the filename
allowed_file_anywhere(filename) ==
    \E ext \in allowed_extensions : Contains(Lower(filename), ext)

\* "." in filename and filename.rsplit(".", 1)[1].lower() in allowed_extensions
allowed_file(filename) ==
    /\ LastDot(filename) # 0
    /\ Lower(DropPrefix(filename, LastDot(filename))) \in allowed_extensions

\* the track id and the object key of the one request
TrackId == 1

S3Key == "s3_key"

\* raise HTTPException(status_code, detail)
HttpError(code, text) == [status |-> code, detail |-> text, chords |-> << >>]

\* the ChordPrediction made of one event of predict_audio
ChordPredictionOf(pred) ==
    [timestamp |-> pred.timestamp, chord |-> pred.chord,
     confidence |-> pred.confidence]

(***************************************************************************)
(* The parts of the state before anything is called on them.               *)
(***************************************************************************)
IdleSegment ==
    /\ segAudioLen = 0
    /\ segStart = FZero
    /\ segDuration = FZero
    /\ segResult = [called |-> FALSE, absent |-> FALSE, start |-> 0, end |-> 0]

IdlePredictor ==
    /\ weights = 0
    /\ audioLen = 0
    /\ hop_duration = FInt(2)
    /\ duration = FZero
    /\ t = FZero
    /\ predictions = << >>
    /\ classified = << >>
    /\ ppc = "idle"

NoResponse == [status |-> 0, detail |-> "", chords |-> << >>]

NoTrack == [status |-> "", bpm |-> 0]

IdleUpload ==
    /\ upFilename = << >>
    /\ upFault = "none"
    /\ upc = "idle"
    /\ payloadRead = FALSE
    /\ audioDecoded = FALSE
    /\ track = NoTrack
    /\ chord_list = << >>
    /\ s3_objects = {}
    /\ track_table = << >>
    /\ prediction_table = << >>
    /\ upResponse = NoResponse

IdleFile ==
    /\ vocabFile = [written |-> FALSE, chord_to_idx |-> << >>,
                    idx_to_chord |-> << >>]
    /\ loaded = [done |-> FALSE, raised |-> FALSE, chord_to_idx |-> << >>,
                 idx_to_chord |-> << >>, num_classes |-> 0]
    /\ loadedEncoded = [set |-> FALSE, val |-> 0]
    /\ loadedDecoded = [set |-> FALSE, arg |-> 0, val |-> << >>]

\* _predictor: Optional["ChordPredictor"] = None
None == 0

\* no coroutine has the loop
Nobody == 0

\* playlist_id: str = Form(None)
NoPlaylist == 0

NoReply == [status |-> 0]

IdleLoader ==
    /\ _predictor = None
    /\ constructed = 0
    /\ returns = << >>

IdleLoop ==
    /\ running = Nobody
    /\ coroutines = << >>
    /\ passes = << >>

IdleStore ==
    /\ tracks = << >>
    /\ playlists = << >>
    /\ issued = 0
    /\ removed = {}
    /\ reply = NoReply

IdleServer == IdleLoader /\ IdleLoop /\ IdleStore

IdleCalls ==
    /\ psResult = [called |-> FALSE, chord |-> << >>, confidence |-> FZero,
                   invoked |-> FALSE]
    /\ bpmTracker = [kind |-> "raises", tempo |-> << >>]
    /\ bpmResult = [called |-> FALSE, raised |-> FALSE, val |-> 0]
    /\ IdleFile /\ IdleUpload

IdleApp == IdleCalls /\ IdleServer

IdleWave ==
    /\ wavAudioLen = 0
    /\ wavLevel = 0
    /\ num_points = 0
    /\ samples_per_point = 0
    /\ wavDuration = FZero
    /\ wavI = 0
    /\ waveform_data = << >>
    /\ buckets = << >>
    /\ wpc = "idle"

(***************************************************************************)
(* Calls on one ChordVocabulary.  A behaviour starts from the constructed  *)
(* vocabulary with one argument drawn from the bounded input sets, and the *)
(* three methods are applied to it.                                        *)
(***************************************************************************)
MaxTokens == 2

MaxProbe == 100

\* how chord strings given to the vocabulary begin
Prefixes ==
    {ROOTS[i] : i \in 1..Len(ROOTS)}
        \cup {ROOT_ALIASES[i].alias : i \in 1..Len(ROOT_ALIASES)}
        \cup {<< >>, <<"N">>, <<"X">>, <<"H">>, <<"c">>}

\* the pieces their remainders are made of
Tokens ==
    {QUALITIES[i] : i \in 1..Len(QUALITIES)}
        \cup {<<"m">>, <<"M">>, <<"b">>, <<"#">>, <<"D", "b">>}

RECURSIVE TokenStrings(_)
TokenStrings(n) ==
    IF n = 0 THEN {<< >>}
    ELSE LET shorter == TokenStrings(n - 1)
         IN  shorter \cup {s \o tok : s \in shorter, tok \in Tokens}

ChordInputs == {p \o s : p \in Prefixes, s \in TokenStrings(MaxTokens)}

ProbeIndices == (0 - 3)..MaxProbe

Unset == [set |-> FALSE, val |-> 0]

\* ChordVocabulary()
InitVocabulary ==
    /\ chord_to_idx = NewVocabulary.c2i
    /\ idx_to_chord = NewVocabulary.i2c
    /\ num_classes = Cardinality(DOMAIN NewVocabulary.c2i)
    /\ normalized = [set |-> FALSE, val |-> << >>]
    /\ encoded = Unset
    /\ decoded = [set |-> FALSE, arg |-> 0, val |-> << >>]
    /\ encoded2 = Unset

InitVocab ==
    /\ InitVocabulary
    /\ chordArg \in ChordInputs
    /\ chordArg2 = << >>
    /\ IdleSegment /\ IdlePredictor /\ IdleWave /\ IdleApp

\* normalize_chord(chordArg)
NormalizeChord ==
    /\ ~normalized.set
    /\ normalized' = [set |-> TRUE, val |-> normalize_chord(chordArg)]
    /\ UNCHANGED << chord_to_idx, idx_to_chord, num_classes, chordArg,
                    encoded, decoded, chordArg2, encoded2 >>
    /\ UNCHANGED << segVars, predVars, waveVars, appVars >>

\* encode(chordArg)
Encode ==
    /\ ~encoded.set
    /\ encoded' = [set |-> TRUE, val |-> encode(chordArg)]
    /\ UNCHANGED << chord_to_idx, idx_to_chord, num_classes, chordArg,
                    normalized, decoded, chordArg2, encoded2 >>
    /\ UNCHANGED << segVars, predVars, waveVars, appVars >>

\* decode(idx), of the index encode returned or of any index
Decode(idx) ==
    /\ ~decoded.set
    /\ decoded' = [set |-> TRUE, arg |-> idx, val |-> decode(idx)]
    /\ UNCHANGED << chord_to_idx, idx_to_chord, num_classes, chordArg,
                    normalized, encoded, chordArg2, encoded2 >>
    /\ UNCHANGED << segVars, predVars, waveVars, appVars >>

DecodeEncoded == encoded.set /\ Decode(encoded.val)

DecodeProbe == \E idx \in ProbeIndices : chordArg = << >> /\ Decode(idx)

NextVocab == NormalizeChord \/ Encode \/ DecodeEncoded \/ DecodeProbe

SpecVocab == InitVocab /\ [][NextVocab]_vars

(***************************************************************************)
(* Two encode calls on one vocabulary, their arguments drawn from the      *)
(* labels of the alphabet and a few strings outside it.                    *)
(***************************************************************************)
Alphabet ==
    {NoChord} \cup
    {ROOTS[i] \o QUALITIES[j] : i \in 1..Len(ROOTS), j \in 1..Len(QUALITIES)}

PairInputs == Alphabet \cup {<< >>, <<"C">>, <<"D", "b", "m", "7">>}

InitVocabPair ==
    /\ InitVocabulary
    /\ chordArg \in PairInputs
    /\ chordArg2 \in Alphabet
    /\ IdleSegment /\ IdlePredictor /\ IdleWave /\ IdleApp

\* encode(chordArg2)
Encode2 ==
    /\ ~encoded2.set
    /\ encoded2' = [set |-> TRUE, val |-> encode(chordArg2)]
    /\ UNCHANGED << chord_to_idx, idx_to_chord, num_classes, chordArg,
                    normalized, encoded, decoded, chordArg2 >>
    /\ UNCHANGED << segVars, predVars, waveVars, appVars >>

NextVocabPair == Encode \/ Encode2

SpecVocabPair == InitVocabPair /\ [][NextVocabPair]_vars

(***************************************************************************)
(* One get_segment_features call, its arguments drawn from signal lengths  *)
(* of whole half seconds and from times within a sample period of them.    *)
(***************************************************************************)
MaxSegHalfSeconds == 4

\* the float nearest to n half sample periods
HalfSamples(n) == FRatio(n, 2 * sample_rate)

SegLens == {0, 1} \cup {k * (sample_rate \div 2) : k \in 1..MaxSegHalfSeconds}

SegStarts ==
    {HalfSamples(k * sample_rate + e) :
        k \in (0 - 1)..MaxSegHalfSeconds, e \in {0 - 2, 0 - 1, 0, 1}}

\* FZero stands for a call without duration
SegDurations ==
    {FZero} \cup
    {HalfSamples(k * sample_rate + e) : k \in 1..MaxSegHalfSeconds, e \in {0, 1}}

InitSegment ==
    /\ InitVocabulary /\ chordArg = << >> /\ chordArg2 = << >>
    /\ IdlePredictor /\ IdleWave /\ IdleApp
    /\ segAudioLen \in SegLens
    /\ segStart \in SegStarts
    /\ segDuration \in SegDurations
    /\ segResult = [called |-> FALSE, absent |-> FALSE, start |-> 0, end |-> 0]

GetSegmentFeatures ==
    /\ ~segResult.called
    /\ LET res == get_segment_features(segAudioLen, segStart, segDuration)
       IN  segResult' = [called |-> TRUE, absent |-> res.absent,
                         start |-> res.start, end |-> res.end]
    /\ UNCHANGED << segAudioLen, segStart, segDuration >>
    /\ UNCHANGED << vocabVars, predVars, waveVars, appVars >>

NextSegment == GetSegmentFeatures

SpecSegment == InitSegment /\ [][NextSegment]_vars

(***************************************************************************)
(* One predict_audio call, one action per pass of its while loop.          *)
(***************************************************************************)
MaxTenths == 16

MaxWeights == 1

AudioLens ==
    {k * (sample_rate \div 10) : k \in 0..MaxTenths}
        \cup {sample_rate - 1, 5 * sample_rate}

HopDurations == {FInt(2), FRatio(1, 2), FRatio(1, 10), FRatio(3, 10)}

\* signals of a few samples with a hop of 3 samples
MaxShortLen == 20

ShortLens == 0..MaxShortLen

ShortHops == {FRatio(k, sample_rate) : k \in {1, 3, 10}}

PredictInputs == (AudioLens \X HopDurations) \cup (ShortLens \X ShortHops)

InitPredict ==
    /\ InitVocabulary /\ chordArg = << >> /\ chordArg2 = << >>
    /\ IdleSegment /\ IdleWave /\ IdleApp
    /\ weights \in 0..MaxWeights
    /\ \E inp \in PredictInputs :
           /\ audioLen = inp[1]
           /\ hop_duration = inp[2]
    /\ duration = FZero
    /\ t = FZero
    /\ predictions = << >>
    /\ classified = << >>
    /\ ppc = "idle"

\* entry: duration = len(audio) / sample_rate, predictions = [], t = 0.0
PredictAudio ==
    /\ ppc = "idle"
    /\ duration' = FRatio(audioLen, sample_rate)
    /\ predictions' = << >>
    /\ t' = FZero
    /\ ppc' = "loop"
    /\ UNCHANGED << weights, audioLen, hop_duration, classified >>
    /\ UNCHANGED << vocabVars, segVars, waveVars, appVars >>

\* predictions.append({...}) for the segment result seg at time t
AppendPrediction(seg, whole) ==
    /\ predictions' = Append(predictions,
           [timestamp      |-> t,
            formatted_time |-> [mins |-> whole \div 60, secs |-> whole % 60],
            chord          |-> seg.chord,
            confidence     |->
                RoundDecimal(FMul(seg.confidence, FInt(100)), 10)])
    /\ classified' =
           IF seg.invoked
           THEN Append(classified, [start |-> seg.features.start,
                                    end   |-> seg.features.end])
           ELSE classified

\* one pass of the loop body
PredictIter ==
    /\ ppc = "loop"
    /\ LoopGuard
    /\ AppendPrediction(predict_segment(audioLen, t, hop_duration), FTrunc(t))
    /\ t' = FAdd(t, hop_duration)
    /\ UNCHANGED << weights, audioLen, hop_duration, duration, ppc >>
    /\ UNCHANGED << vocabVars, segVars, waveVars, appVars >>

\* the loop condition fails: return predictions
PredictReturn ==
    /\ ppc = "loop"
    /\ ~LoopGuard
    /\ ppc' = "done"
    /\ UNCHANGED << weights, audioLen, hop_duration, duration, t,
                    predictions, classified >>
    /\ UNCHANGED << vocabVars, segVars, waveVars, appVars >>

NextPredict == PredictAudio \/ PredictIter \/ PredictReturn

SpecPredict == InitPredict /\ [][NextPredict]_vars

(***************************************************************************)
(* predict_segment, called by the loop of predict_audio or directly with   *)
(* the arguments of a get_segment_features call.                           *)
(***************************************************************************)
\* the (chord, confidence) pair a predict_segment call returned
ReturnedSegment(seg) ==
    [called |-> TRUE, chord |-> seg.chord, confidence |-> seg.confidence,
     invoked |-> seg.invoked]

\* predict_segment(audio, start_time, duration), called directly
PredictSegment ==
    /\ ~psResult.called
    /\ ppc = "idle"
    /\ psResult' =
           ReturnedSegment(predict_segment(segAudioLen, segStart, segDuration))
    /\ UNCHANGED << bpmTracker, bpmResult, fileVars, uploadVars, srvVars >>
    /\ UNCHANGED << vocabVars, segVars, predVars, waveVars >>

InitPredictSegment == InitSegment \/ InitPredict

NextPredictSegment == PredictSegment \/ NextPredict

SpecPredictSegment == InitPredictSegment /\ [][NextPredictSegment]_vars

(***************************************************************************)
(* One generate_waveform_data call (ml/feature_extractor.py), one action   *)
(* per pass of its for loop.  The signal has wavAudioLen samples, and the  *)
(* root mean square of every non-empty stretch of it times 1000 is         *)
(* wavLevel hundredths.  Amplitudes are held in hundredths.                *)
(***************************************************************************)
MaxWaveLen == 10

MaxPoints == 4

WaveLevels == {0, 734, 50000}

\* signal lengths: the short ones, and 220, 10000 and 11025 samples
WaveLens == (0..MaxWaveLen) \cup {220, 10000, sample_rate \div 2}

\* point counts: the small ones, 100, and the default 150
WavePoints == (0..MaxPoints) \cup {100, 150}

InitWave ==
    /\ InitVocabulary /\ chordArg = << >> /\ chordArg2 = << >>
    /\ IdleSegment /\ IdlePredictor /\ IdleApp
    /\ wavAudioLen \in WaveLens
    /\ wavLevel \in WaveLevels
    /\ num_points \in WavePoints
    /\ samples_per_point = 0
    /\ wavDuration = FZero
    /\ wavI = 0
    /\ waveform_data = << >>
    /\ buckets = << >>
    /\ wpc = "idle"

\* entry, up to the for loop; len(audio) // 0 raises ZeroDivisionError
GenerateWaveformData ==
    /\ wpc = "idle"
    /\ wavDuration' = FRatio(wavAudioLen, sample_rate)
    /\ IF num_points = 0
       THEN /\ wpc' = "raised"
            /\ UNCHANGED samples_per_point
       ELSE /\ samples_per_point' = wavAudioLen \div num_points
            /\ wpc' = "loop"
    /\ waveform_data' = << >>
    /\ buckets' = << >>
    /\ wavI' = 0
    /\ UNCHANGED << wavAudioLen, wavLevel, num_points >>
    /\ UNCHANGED << vocabVars, segVars, predVars, appVars >>

\* min(100, max(5, rms * 1000)) in hundredths; the mean of an empty segment
\* is nan, and max(5, nan) is 5
Amplitude(segLen) ==
    IF segLen = 0 THEN 500 ELSE Min(10000, Max(500, wavLevel))

\* one pass of the loop body
WaveIter ==
    /\ wpc = "loop"
    /\ wavI < num_points
    /\ LET start_idx  == wavI * samples_per_point
           end_idx    == Min(start_idx + samples_per_point, wavAudioLen)
           time_point == FMul(FRatio(wavI, num_points), wavDuration)
       IN  /\ waveform_data' = Append(waveform_data,
                  [time      |-> RoundDecimal(time_point, 100),
                   amplitude |->
                       Amplitude(SliceLen(wavAudioLen, start_idx, end_idx))])
           /\ buckets' = Append(buckets, [start |-> start_idx, end |-> end_idx])
    /\ wavI' = wavI + 1
    /\ UNCHANGED << wavAudioLen, wavLevel, num_points, samples_per_point,
                    wavDuration, wpc >>
    /\ UNCHANGED << vocabVars, segVars, predVars, appVars >>

\* the loop is over: return waveform_data
WaveReturn ==
    /\ wpc = "loop"
    /\ wavI = num_points
    /\ wpc' = "done"
    /\ UNCHANGED << wavAudioLen, wavLevel, num_points, samples_per_point,
                    wavDuration, wavI, waveform_data, buckets >>
    /\ UNCHANGED << vocabVars, segVars, predVars, appVars >>

NextWave == GenerateWaveformData \/ WaveIter \/ WaveReturn

SpecWave == InitWave /\ [][NextWave]_vars

(***************************************************************************)
(* save and load of one vocabulary, and encode and decode on the loaded    *)
(* vocabulary.                                                             *)
(***************************************************************************)
FileChords ==
    Alphabet \cup {<< >>, << "H" >>, << "D", "b", "m", "i", "n", "7" >>,
                   << "C", "m", "7" >>}

FileProbes == {0 - 1, 0, 5, 96, 97}

InitFile ==
    /\ InitVocabulary
    /\ chordArg \in FileChords
    /\ chordArg2 = << >>
    /\ IdleSegment /\ IdlePredictor /\ IdleWave /\ IdleApp

\* vocab.save(filepath)
Save ==
    /\ ~vocabFile.written
    /\ vocabFile' = SavedFile(chord_to_idx, idx_to_chord)
    /\ UNCHANGED << loaded, loadedEncoded, loadedDecoded >>
    /\ UNCHANGED << psResult, bpmTracker, bpmResult, uploadVars,
                    srvVars >>
    /\ UNCHANGED << vocabVars, segVars, predVars, waveVars >>

\* ChordVocabulary.load(filepath); open raises when the file is not there
Load ==
    /\ ~loaded.done
    /\ ~loaded.raised
    /\ loaded' = IF vocabFile.written THEN LoadedVocabulary(vocabFile)
                 ELSE [loaded EXCEPT !.raised = TRUE]
    /\ UNCHANGED << vocabFile, loadedEncoded, loadedDecoded >>
    /\ UNCHANGED << psResult, bpmTracker, bpmResult, uploadVars,
                    srvVars >>
    /\ UNCHANGED << vocabVars, segVars, predVars, waveVars >>

\* encode(chordArg) on the loaded vocabulary
EncodeLoaded ==
    /\ loaded.done
    /\ ~loadedEncoded.set
    /\ loadedEncoded' =
           [set |-> TRUE,
            val |-> DictGet(loaded.chord_to_idx, normalize_chord(chordArg), 0)]
    /\ UNCHANGED << vocabFile, loaded, loadedDecoded >>
    /\ UNCHANGED << psResult, bpmTracker, bpmResult, uploadVars,
                    srvVars >>
    /\ UNCHANGED << vocabVars, segVars, predVars, waveVars >>

\* decode(idx) on the loaded vocabulary
DecodeLoaded ==
    /\ loaded.done
    /\ ~loadedDecoded.set
    /\ \E idx \in FileProbes :
           loadedDecoded' =
               [set |-> TRUE, arg |-> idx,
                val |-> DictGet(loaded.idx_to_chord, idx, NoChord)]
    /\ UNCHANGED << vocabFile, loaded, loadedEncoded >>
    /\ UNCHANGED << psResult, bpmTracker, bpmResult, uploadVars,
                    srvVars >>
    /\ UNCHANGED << vocabVars, segVars, predVars, waveVars >>

NextFile == Save \/ Load \/ EncodeLoaded \/ DecodeLoaded

SpecFile == InitFile /\ [][NextFile]_vars

(***************************************************************************)
(* One estimate_bpm call, for each thing the beat tracker can do.          *)
(***************************************************************************)
MaxTempoHalves == 5

\* tempos: small multiples of 0.5, 89.7, 119.5, 120.5, nan and infinity
BpmTempos ==
    {[cls |-> "finite", val |-> v] :
        v \in {FRatio(k, 2) : k \in 0..MaxTempoHalves}
                 \cup {FRatio(897, 10), FRatio(239, 2), FRatio(241, 2)}}
    \cup {[cls |-> "nan", val |-> FZero], [cls |-> "inf", val |-> FZero]}

BpmTrackers ==
    {[kind |-> "raises", tempo |-> << >>]}
    \cup {[kind |-> "scalar", tempo |-> << v >>] : v \in BpmTempos}
    \cup {[kind |-> "array", tempo |-> << >>]}
    \cup {[kind |-> "array", tempo |-> << v >>] : v \in BpmTempos}
    \cup {[kind |-> "array", tempo |-> << v, w >>] :
              v \in BpmTempos, w \in BpmTempos}

InitBpm ==
    /\ InitVocabulary /\ chordArg = << >> /\ chordArg2 = << >>
    /\ IdleSegment /\ IdlePredictor /\ IdleWave
    /\ psResult = [called |-> FALSE, chord |-> << >>, confidence |-> FZero,
                   invoked |-> FALSE]
    /\ bpmTracker \in BpmTrackers
    /\ bpmResult = [called |-> FALSE, raised |-> FALSE, val |-> 0]
    /\ IdleFile /\ IdleUpload /\ IdleServer

\* the value or the exception that leaves an estimate_bpm call
ReturnedBpm(res) == [called |-> TRUE, raised |-> res.raised, val |-> res.val]

\* estimate_bpm(audio)
EstimateBpm ==
    /\ ~bpmResult.called
    /\ bpmResult' = ReturnedBpm(estimate_bpm(bpmTracker))
    /\ UNCHANGED << psResult, bpmTracker, fileVars, uploadVars, srvVars >>
    /\ UNCHANGED << vocabVars, segVars, predVars, waveVars >>

NextBpm == EstimateBpm

SpecBpm == InitBpm /\ [][NextBpm]_vars

(***************************************************************************)
(* One upload_audio request.  The request is followed from await to await; *)
(* upFault names the step that raises, if one does.  The signal that the   *)
(* payload decodes to has audioLen samples.                                *)
(***************************************************************************)
UploadFilenames ==
    {<< "s", "o", "n", "g", ".", "m", "p", "3" >>,
     << "s", "o", "n", "g", ".", "M", "P", "3" >>,
     << "a", ".", "w", "a", "v" >>,
     << "a", ".", "F", "l", "a", "c" >>,
     << "a", ".", "a", "i", "f", "f" >>,
     << "a", ".", "o", "g", "g" >>,
     << "a", ".", "m", "4", "a" >>,
     << >>,
     << "s", "o", "n", "g" >>,
     << "s", "o", "n", "g", "." >>,
     << "s", "o", "n", "g", ".", "t", "x", "t" >>,
     << "s", "o", "n", "g", ".", "m", "p", "4" >>,
     << "a", ".", "m", "p", "3", ".", "e", "x", "e" >>,
     << "a", ".", "e", "x", "e", ".", "m", "p", "3" >>,
     << ".", "m", "p", "3" >>,
     << "m", "p", "3" >>,
     << "a", ".", "m", "p", "3", " " >>}

UploadFaults ==
    {"none", "read", "s3", "create_track", "decode", "update_track",
     "predict", "create_predictions"}

MaxUploadSeconds == 5

UploadAudioLens ==
    {0, sample_rate} \cup {k * sample_rate + 1 : k \in 4..MaxUploadSeconds}

UploadTrackers ==
    {[kind |-> "raises", tempo |-> << >>],
     [kind |-> "array", tempo |-> << [cls |-> "finite", val |-> FRatio(241, 2)] >>]}

InitUpload ==
    /\ InitVocabulary /\ chordArg = << >> /\ chordArg2 = << >>
    /\ IdleSegment /\ IdleWave /\ IdleFile /\ IdleServer
    /\ psResult = [called |-> FALSE, chord |-> << >>, confidence |-> FZero,
                   invoked |-> FALSE]
    /\ bpmTracker \in UploadTrackers
    /\ bpmResult = [called |-> FALSE, raised |-> FALSE, val |-> 0]
    /\ weights \in 0..MaxWeights
    /\ audioLen \in UploadAudioLens
    /\ hop_duration = FInt(2)
    /\ duration = FZero
    /\ t = FZero
    /\ predictions = << >>
    /\ classified = << >>
    /\ ppc = "idle"
    /\ upFilename \in UploadFilenames
    /\ upFault \in UploadFaults
    /\ upc = "start"
    /\ payloadRead = FALSE
    /\ audioDecoded = FALSE
    /\ track = NoTrack
    /\ chord_list = << >>
    /\ s3_objects = {}
    /\ track_table = << >>
    /\ prediction_table = << >>
    /\ upResponse = NoResponse

\* the request ends with an HTTPException
Fails(code, text) ==
    /\ upResponse' = HttpError(code, text)
    /\ upc' = "done"

\* the checks before the try block
UploadValidate ==
    /\ upc = "start"
    /\ IF upFilename = << >>
       THEN Fails(400, "No file selected")
       ELSE IF ~allowed_file(upFilename)
       THEN Fails(400, "File type not allowed")
       ELSE upc' = "read" /\ UNCHANGED upResponse
    /\ UNCHANGED << upFilename, upFault, payloadRead, audioDecoded, track,
                    chord_list, s3_objects, track_table, prediction_table >>
    /\ UNCHANGED << psResult, bpmTracker, bpmResult, fileVars, srvVars >>
    /\ UNCHANGED << vocabVars, segVars, predVars, waveVars >>

\* content = await file.read()
UploadRead ==
    /\ upc = "read"
    /\ IF upFault = "read"
       THEN Fails(500, "error") /\ UNCHANGED payloadRead
       ELSE payloadRead' = TRUE /\ upc' = "store" /\ UNCHANGED upResponse
    /\ UNCHANGED << upFilename, upFault, audioDecoded, track, chord_list,
                    s3_objects, track_table, prediction_table >>
    /\ UNCHANGED << psResult, bpmTracker, bpmResult, fileVars, srvVars >>
    /\ UNCHANGED << vocabVars, segVars, predVars, waveVars >>

\* await s3_service.upload_file(content, s3_key, mime_type)
UploadStore ==
    /\ upc = "store"
    /\ IF upFault = "s3"
       THEN Fails(500, "Storage error") /\ UNCHANGED s3_objects
       ELSE /\ s3_objects' = s3_objects \cup {S3Key}
            /\ upc' = "record" /\ UNCHANGED upResponse
    /\ UNCHANGED << upFilename, upFault, payloadRead, audioDecoded, track,
                    chord_list, track_table, prediction_table >>
    /\ UNCHANGED << psResult, bpmTracker, bpmResult, fileVars, srvVars >>
    /\ UNCHANGED << vocabVars, segVars, predVars, waveVars >>

\* track = AudioTrackEntry(..., status="processing");
\* await db_repo.create_track(track)
UploadCreateTrack ==
    /\ upc = "record"
    /\ track' = [status |-> "processing", bpm |-> 0]
    /\ IF upFault = "create_track"
       THEN Fails(500, "Database error") /\ UNCHANGED track_table
       ELSE /\ track_table' = (TrackId :> track')
            /\ upc' = "decode" /\ UNCHANGED upResponse
    /\ UNCHANGED << upFilename, upFault, payloadRead, audioDecoded,
                    chord_list, s3_objects, prediction_table >>
    /\ UNCHANGED << psResult, bpmTracker, bpmResult, fileVars, srvVars >>
    /\ UNCHANGED << vocabVars, segVars, predVars, waveVars >>

\* load_audio_from_bytes, get_audio_duration, estimate_bpm, and the
\* assignments to track up to status = "completed"
UploadDecode ==
    /\ upc = "decode"
    /\ IF upFault = "decode"
       THEN /\ Fails(500, "error")
            /\ UNCHANGED << audioDecoded, track, bpmResult >>
       ELSE /\ audioDecoded' = TRUE
            /\ bpmResult' = ReturnedBpm(estimate_bpm(bpmTracker))
            /\ track' = [status |-> "completed",
                         bpm |-> estimate_bpm(bpmTracker).val]
            /\ upc' = "update" /\ UNCHANGED upResponse
    /\ UNCHANGED << upFilename, upFault, payloadRead, chord_list, s3_objects,
                    track_table, prediction_table >>
    /\ UNCHANGED << psResult, bpmTracker, fileVars, srvVars >>
    /\ UNCHANGED << vocabVars, segVars, predVars, waveVars >>

\* await db_repo.update_track(track)
UploadUpdateTrack ==
    /\ upc = "update"
    /\ IF upFault = "update_track"
       THEN Fails(500, "Database error") /\ UNCHANGED track_table
       ELSE /\ track_table' = (TrackId :> track)
            /\ upc' = "predict" /\ UNCHANGED upResponse
    /\ UNCHANGED << upFilename, upFault, payloadRead, audioDecoded, track,
                    chord_list, s3_objects, prediction_table >>
    /\ UNCHANGED << psResult, bpmTracker, bpmResult, fileVars, srvVars >>
    /\ UNCHANGED << vocabVars, segVars, predVars, waveVars >>

\* predictor.predict_audio(audio, hop_duration=2.0) raises
UploadPredictFails ==
    /\ upc = "predict"
    /\ upFault = "predict"
    /\ Fails(500, "error")
    /\ UNCHANGED << upFilename, upFault, payloadRead, audioDecoded, track,
                    chord_list, s3_objects, track_table, prediction_table >>
    /\ UNCHANGED << psResult, bpmTracker, bpmResult, fileVars, srvVars >>
    /\ UNCHANGED << vocabVars, segVars, predVars, waveVars >>

\* predictor.predict_audio(audio, hop_duration=2.0), step by step
UploadPredict ==
    /\ upc = "predict"
    /\ upFault # "predict"
    /\ NextPredict

\* chord_list and await db_repo.create_predictions(chord_entry), which
\* writes nothing for an empty list of chords
UploadPersist ==
    /\ upc = "predict"
    /\ ppc = "done"
    /\ chord_list' = [k \in 1..Len(predictions) |->
                          ChordPredictionOf(predictions[k])]
    /\ IF upFault = "create_predictions"
       THEN Fails(500, "Database error") /\ UNCHANGED prediction_table
       ELSE /\ prediction_table' =
                   IF chord_list' = << >> THEN prediction_table
                   ELSE (TrackId :> chord_list')
            /\ upc' = "respond" /\ UNCHANGED upResponse
    /\ UNCHANGED << upFilename, upFault, payloadRead, audioDecoded, track,
                    s3_objects, track_table >>
    /\ UNCHANGED << psResult, bpmTracker, bpmResult, fileVars, srvVars >>
    /\ UNCHANGED << vocabVars, segVars, predVars, waveVars >>

\* return UploadResponse(success=True, track=..., chords=...)
UploadRespond ==
    /\ upc = "respond"
    /\ upResponse' = [status |-> 200, detail |-> "", chords |-> chord_list]
    /\ upc' = "done"
    /\ UNCHANGED << upFilename, upFault, payloadRead, audioDecoded, track,
                    chord_list, s3_objects, track_table, prediction_table >>
    /\ UNCHANGED << psResult, bpmTracker, bpmResult, fileVars, srvVars >>
    /\ UNCHANGED << vocabVars, segVars, predVars, waveVars >>

NextUpload ==
    \/ UploadValidate
    \/ UploadRead
    \/ UploadStore
    \/ UploadCreateTrack
    \/ UploadDecode
    \/ UploadUpdateTrack
    \/ UploadPredictFails
    \/ UploadPredict
    \/ UploadPersist
    \/ UploadRespond

SpecUpload == InitUpload /\ [][NextUpload]_vars

(***************************************************************************)
(* load_model and get_predictor (ml/predictor.py), called any number of    *)
(* times in one process.  A ChordPredictor is the number of constructions  *)
(* made up to and with its own; the constructor returns or raises.         *)
(***************************************************************************)
\* load_model that constructs on every call
load_model_always(p, n, raises) ==
    IF raises
    THEN [predictor |-> p, constructed |-> n, raised |-> TRUE, val |-> None]
    ELSE [predictor |-> n + 1, constructed |-> n + 1, raised |-> FALSE,
          val |-> n + 1]

\* load_model() with _predictor = p after n constructions: the new value
\* of _predictor, the constructions made, and what the call returns
load_model(p, n, raises) ==
    IF p = None
    THEN IF raises
         THEN [predictor |-> p, constructed |-> n, raised |-> TRUE,
               val |-> None]
         ELSE [predictor |-> n + 1, constructed |-> n + 1, raised |-> FALSE,
               val |-> n + 1]
    ELSE [predictor |-> p, constructed |-> n, raised |-> FALSE, val |-> p]

\* get_predictor(): load_model() when _predictor is None, then return
\* _predictor
get_predictor(p, n, raises) ==
    IF p = None
    THEN [predictor   |-> load_model(p, n, raises).predictor,
          constructed |-> load_model(p, n, raises).constructed,
          raised      |-> load_model(p, n, raises).raised,
          val         |-> load_model(p, n, raises).predictor]
    ELSE [predictor |-> p, constructed |-> n, raised |-> FALSE, val |-> p]

MaxCalls == 5

InitLoader ==
    /\ InitVocabulary /\ chordArg = << >> /\ chordArg2 = << >>
    /\ IdleSegment /\ IdlePredictor /\ IdleWave /\ IdleCalls
    /\ IdleLoader /\ IdleLoop /\ IdleStore

\* the call fn has ended with outcome res
Called(fn, res) ==
    /\ _predictor' = res.predictor
    /\ constructed' = res.constructed
    /\ returns' = Append(returns, [fn |-> fn, raised |-> res.raised,
                                   val |-> res.val])
    /\ UNCHANGED << vocabVars, segVars, predVars, waveVars >>
    /\ UNCHANGED << psResult, bpmTracker, bpmResult, fileVars, uploadVars >>
    /\ UNCHANGED << loopVars, storeVars >>

\* load_model(), as the lifespan calls it
LoadModel ==
    /\ Len(returns) < MaxCalls
    /\ \E raises \in BOOLEAN :
           Called("load_model", load_model(_predictor, constructed, raises))

\* get_predictor(), as upload_audio calls it
GetPredictor ==
    /\ Len(returns) < MaxCalls
    /\ \E raises \in BOOLEAN :
           Called("get_predictor",
                  get_predictor(_predictor, constructed, raises))

NextLoader == LoadModel \/ GetPredictor

SpecLoader == InitLoader /\ [][NextLoader]_vars

(***************************************************************************)
(* upload_audio requests served by one event loop.  A coroutine runs from  *)
(* one await to the next; the loop resumes another one only when the       *)
(* running one has suspended or returned.                                  *)
(***************************************************************************)
MaxRequests == 2

MaxWindows == 2

Requests == 1..MaxRequests

\* the statements of upload_audio in order; "predict_audio" is the call of
\* predict_audio, every pass of its while loop and its return
Statements ==
    << "file.read", "upload_file", "create_track", "decode", "update_track",
       "predict_audio", "create_predictions", "return" >>

\* every statement is a suspension point
SuspendsAlways(stmt) == stmt # "return"

\* the statements that await: file.read(), s3_service.upload_file(),
\* db_repo.create_track(), db_repo.update_track(),
\* db_repo.create_predictions()
Suspends(stmt) ==
    stmt \in {"file.read", "upload_file", "create_track", "update_track",
              "create_predictions"}

InitLoop ==
    /\ InitVocabulary /\ chordArg = << >> /\ chordArg2 = << >>
    /\ IdleSegment /\ IdlePredictor /\ IdleWave /\ IdleCalls
    /\ IdleLoader /\ IdleStore
    /\ running = Nobody
    /\ coroutines \in [Requests -> [pc : {1}, inside : {FALSE},
                                    windows : 0..MaxWindows, done : {0}]]
    /\ passes = << >>

LoopUnchanged ==
    /\ UNCHANGED << vocabVars, segVars, predVars, waveVars >>
    /\ UNCHANGED << psResult, bpmTracker, bpmResult, fileVars, uploadVars >>
    /\ UNCHANGED << loaderVars, storeVars >>

\* the event loop gives control to a coroutine that has not returned
Resume(r) ==
    /\ running = Nobody
    /\ Statements[coroutines[r].pc] # "return"
    /\ running' = r
    /\ UNCHANGED << coroutines, passes >>
    /\ LoopUnchanged

\* the coroutine after its statement: predict_audio is entered, makes one
\* pass of its loop while windows are left, then returns
Executed(c) ==
    IF Statements[c.pc] # "predict_audio" THEN [c EXCEPT !.pc = c.pc + 1]
    ELSE IF ~c.inside THEN [c EXCEPT !.inside = TRUE]
    ELSE IF c.done < c.windows THEN [c EXCEPT !.done = c.done + 1]
    ELSE [c EXCEPT !.inside = FALSE, !.pc = c.pc + 1]

\* the running coroutine executes its statement; it gives the loop back
\* when the statement awaits
Step(r) ==
    /\ running = r
    /\ coroutines' = [coroutines EXCEPT ![r] = Executed(coroutines[r])]
    /\ passes' = IF coroutines'[r].done > coroutines[r].done
                 THEN Append(passes, r) ELSE passes
    /\ running' = IF Suspends(Statements[coroutines[r].pc])
                  THEN Nobody ELSE r
    /\ LoopUnchanged

NextLoop == \E r \in Requests : Resume(r) \/ Step(r)

SpecLoop == InitLoop /\ [][NextLoop]_vars

(***************************************************************************)
(* The track and playlist requests of routers/audio.py on the tracks and   *)
(* playlists tables, one request at a time.  Ids are uuids: every new id   *)
(* is one never issued before.                                             *)
(***************************************************************************)
MaxIssued == 3

Users == {"A", "B"}

Ids == 1..MaxIssued

\* the playlist_id of an upload form: None or any id
PlaylistRefs == {NoPlaylist} \cup Ids

\* the track_ids of an update request: None (no change) or a list of ids
NoTrackIds == << NoPlaylist >>

TrackIdLists == {NoTrackIds, << >>} \cup {<< i >> : i \in Ids}

\* d without the key k
Without(d, k) == [i \in DOMAIN d \ {k} |-> d[i]]

\* d with d[k] = v
With(d, k, v) == [i \in DOMAIN d \cup {k} |-> IF i = k THEN v ELSE d[i]]

\* list.remove(x): the list without the first x
RECURSIVE ListRemove(_, _)
ListRemove(list, x) ==
    IF list = << >> THEN << >>
    ELSE IF Head(list) = x THEN Tail(list)
    ELSE << Head(list) >> \o ListRemove(Tail(list), x)

InList(list, x) == \E k \in 1..Len(list) : list[k] = x

\* db_repo.get_playlist_tracks(playlist_id): the scan of the tracks table
\* for playlist_id = :pid
get_playlist_tracks(pid) == {i \in DOMAIN tracks : tracks[i].playlist_id = pid}

InitStore ==
    /\ InitVocabulary /\ chordArg = << >> /\ chordArg2 = << >>
    /\ IdleSegment /\ IdlePredictor /\ IdleWave /\ IdleCalls
    /\ IdleLoader /\ IdleLoop /\ IdleStore

StoreUnchanged ==
    /\ UNCHANGED << vocabVars, segVars, predVars, waveVars >>
    /\ UNCHANGED << psResult, bpmTracker, bpmResult, fileVars, uploadVars >>
    /\ UNCHANGED << loaderVars, loopVars >>

\* the request ends with HTTPException(status_code) and no write
Refused(code) ==
    /\ reply' = [status |-> code]
    /\ UNCHANGED << tracks, playlists, issued, removed >>

\* upload_audio by user u with form field playlist_id = pid, None or an id
\* issued before: the track record that create_track stores
StoreUpload(u, pid) ==
    /\ issued < MaxIssued
    /\ pid <= issued
    /\ issued' = issued + 1
    /\ tracks' = With(tracks, issued + 1,
                      [user_id |-> u, playlist_id |-> pid])
    /\ reply' = [status |-> 200]
    /\ UNCHANGED << playlists, removed >>
    /\ StoreUnchanged

\* create_playlist by user u
CreatePlaylist(u) ==
    /\ issued < MaxIssued
    /\ issued' = issued + 1
    /\ playlists' = With(playlists, issued + 1,
                         [user_id |-> u, track_ids |-> << >>])
    /\ reply' = [status |-> 200]
    /\ UNCHANGED << tracks, removed >>
    /\ StoreUnchanged

\* get_playlist(pid) by user u
GetPlaylist(u, pid) ==
    /\ IF pid \notin DOMAIN playlists THEN Refused(404)
       ELSE IF playlists[pid].user_id # u THEN Refused(403)
       ELSE /\ reply' = [status      |-> 200,
                         track_count |-> Len(playlists[pid].track_ids),
                         tracks      |-> get_playlist_tracks(pid)]
            /\ UNCHANGED << tracks, playlists, issued, removed >>
    /\ StoreUnchanged

\* update_playlist(pid) by user u with request_body.track_ids = ids
UpdatePlaylist(u, pid, ids) ==
    /\ IF pid \notin DOMAIN playlists THEN Refused(404)
       ELSE IF playlists[pid].user_id # u THEN Refused(403)
       ELSE /\ playlists' =
                   IF ids = NoTrackIds THEN playlists
                   ELSE [playlists EXCEPT ![pid].track_ids = ids]
            /\ reply' = [status      |-> 200,
                         track_count |-> Len(playlists'[pid].track_ids),
                         tracks      |-> get_playlist_tracks(pid)]
            /\ UNCHANGED << tracks, issued, removed >>
    /\ StoreUnchanged

\* the playlists table after delete_track has taken tid off the track_ids
\* of the playlist pid of the track
TrackTakenOff(tid, pid) ==
    IF /\ pid # NoPlaylist
       /\ pid \in DOMAIN playlists
       /\ InList(playlists[pid].track_ids, tid)
    THEN [playlists EXCEPT ![pid].track_ids = ListRemove(@, tid)]
    ELSE playlists

\* delete_track(tid) by user u
DeleteTrack(u, tid) ==
    /\ IF tid \notin DOMAIN tracks THEN Refused(404)
       ELSE IF tracks[tid].user_id # u THEN Refused(403)
       ELSE /\ playlists' = TrackTakenOff(tid, tracks[tid].playlist_id)
            /\ tracks' = Without(tracks, tid)
            /\ removed' = removed \cup
                   {[track |-> tid, owner |-> tracks[tid].user_id, by |-> u]}
            /\ reply' = [status |-> 200]
            /\ UNCHANGED issued
    /\ StoreUnchanged

\* delete_playlist(pid) by user u
DeletePlaylist(u, pid) ==
    /\ IF pid \notin DOMAIN playlists THEN Refused(404)
       ELSE IF playlists[pid].user_id # u THEN Refused(403)
       ELSE /\ tracks' = [i \in DOMAIN tracks \ get_playlist_tracks(pid)
                             |-> tracks[i]]
            /\ removed' = removed \cup
                   {[track |-> i, owner |-> tracks[i].user_id, by |-> u] :
                        i \in get_playlist_tracks(pid)}
            /\ playlists' = Without(playlists, pid)
            /\ reply' = [status |-> 200]
            /\ UNCHANGED issued
    /\ StoreUnchanged

NextStore ==
    \E u \in Users :
        \/ \E pid \in PlaylistRefs : StoreUpload(u, pid)
        \/ CreatePlaylist(u)
        \/ \E pid \in Ids : GetPlaylist(u, pid)
        \/ \E pid \in Ids, ids \in TrackIdLists : UpdatePlaylist(u, pid, ids)
        \/ \E tid \in Ids : DeleteTrack(u, tid)
        \/ \E pid \in Ids : DeletePlaylist(u, pid)

SpecStore == InitStore /\ [][NextStore]_vars

(***************************************************************************)
(* Properties of ChordVocabulary.                                          *)
(***************************************************************************)
\* whether normalize_chord recognises a root in chord
RootRecognised(chord) ==
    /\ chord \notin {<< >>, <<"N">>, <<"X">>}
    /\ \E i \in 1..Len(ROOTS) : StartsWith(ResolveAlias(chord), ROOTS[i])

\* the longest canonical root that is a prefix of s
LongestRootPrefix(s) ==
    CHOOSE r \in {ROOTS[i] : i \in 1..Len(ROOTS)} :
        /\ StartsWith(s, r)
        /\ \A i \in 1..Len(ROOTS) :
               StartsWith(s, ROOTS[i]) => Len(ROOTS[i]) <= Len(r)

\* the quality of what follows the root, by the order of tests the
\* specification lists: maj7 or M7, min7, dim7, 7, dim, aug, min or m, maj
ListedQuality(rest) ==
    LET suffix == Lower(rest)
    IN  IF Contains(suffix, <<"m", "a", "j", "7">>) \/ Contains(rest, <<"M", "7">>)
        THEN <<"m", "a", "j", "7">>
        ELSE IF Contains(suffix, <<"m", "i", "n", "7">>)
        THEN <<"m", "i", "n", "7">>
        ELSE IF Contains(suffix, <<"d", "i", "m", "7">>)
        THEN <<"d", "i", "m", "7">>
        ELSE IF Contains(suffix, <<"7">>) THEN <<"7">>
        ELSE IF Contains(suffix, <<"d", "i", "m">>) THEN <<"d", "i", "m">>
        ELSE IF Contains(suffix, <<"a", "u", "g">>) THEN <<"a", "u", "g">>
        ELSE IF Contains(suffix, <<"m", "i", "n">>) \/ Contains(suffix, <<"m">>)
        THEN <<"m", "i", "n">>
        ELSE <<"m", "a", "j">>

\* C2: whenever normalize_chord has been applied to an input whose root is
\* recognised, the quality of the result is the one the first matching test
\* of the listed order gives for the text after the root (so root + "dim7"
\* has quality dim7, and root + "m7" has the quality of the bare "7" test).
C2_QualityByListedOrder ==
    (normalized.set /\ RootRecognised(chordArg)) =>
        LET resolved == ResolveAlias(chordArg)
            root     == LongestRootPrefix(resolved)
        IN  normalized.val = root \o ListedQuality(DropPrefix(resolved, Len(root)))

\* C3: two encode calls on distinct labels of the alphabet never return the
\* same class index (a collision needs an argument outside the alphabet).
C3_EncodeInjectiveOnAlphabet ==
    (/\ encoded.set /\ encoded2.set
     /\ chordArg \in Alphabet /\ chordArg2 \in Alphabet
     /\ chordArg # chordArg2)
        => encoded.val # encoded2.val

\* C4: decoding the index that encode returned for a chord string gives the
\* label normalize_chord returned for that string.
C4_DecodeEncodeIsNormalize ==
    (normalized.set /\ encoded.set /\ decoded.set /\ decoded.arg = encoded.val)
        => decoded.val = normalized.val

C4_Witness ==
    /\ chordArg = <<"D", "b", "m", "i", "n", "7">>
    /\ normalized.set /\ encoded.set /\ decoded.set
    /\ decoded.arg = encoded.val
    /\ decoded.val = <<"C", "#", "m", "i", "n", "7">>

\* C5: encode returns an index of the table for every string, and 0 when
\* the string is empty or unrecognised or its normalized label is not a key
\* of the table; decode returns a label of the alphabet for every integer,
\* and "N" for every integer outside 0..96.
C5_EncodeDecodeTotal ==
    /\ encoded.set =>
           /\ encoded.val \in 0..96
           /\ ~RootRecognised(chordArg) => encoded.val = 0
           /\ normalize_chord(chordArg) \notin DOMAIN chord_to_idx
                  => encoded.val = 0
    /\ decoded.set =>
           /\ decoded.val \in Alphabet
           /\ decoded.arg \notin 0..96 => decoded.val = NoChord

C5_Witness ==
    /\ chordArg = << >>
    /\ encoded.set /\ encoded.val = 0
    /\ decoded.set /\ decoded.arg = 0 - 1 /\ decoded.val = NoChord

\* C6: in every state, before and after any calls, the table has 97 entries,
\* "N" has index 0, ROOTS[i] + QUALITIES[j] (counted from 0) has index
\* 1 + 8*i + j, num_classes is 97 and the two dicts are mutual inverses.
C6_TableShape ==
    /\ Cardinality(DOMAIN chord_to_idx) = 97
    /\ Cardinality(DOMAIN idx_to_chord) = 97
    /\ num_classes = 97
    /\ chord_to_idx[NoChord] = 0
    /\ \A i \in 1..Len(ROOTS), j \in 1..Len(QUALITIES) :
           /\ ROOTS[i] \o QUALITIES[j] \in DOMAIN chord_to_idx
           /\ chord_to_idx[ROOTS[i] \o QUALITIES[j]] = 1 + 8 * (i - 1) + (j - 1)
    /\ \A c \in DOMAIN chord_to_idx :
           /\ chord_to_idx[c] \in DOMAIN idx_to_chord
           /\ idx_to_chord[chord_to_idx[c]] = c
    /\ \A k \in DOMAIN idx_to_chord :
           /\ idx_to_chord[k] \in DOMAIN chord_to_idx
           /\ chord_to_idx[idx_to_chord[k]] = k

C6_Witness ==
    /\ normalized.set /\ encoded.set /\ decoded.set
    /\ encoded.val = 95
    /\ chord_to_idx[<<"B", "d", "i", "m", "7">>] = 96

\* C7: normalize_chord returns "N" for the empty string, "N" and "X" and for
\* an input of which, after alias resolution, no canonical root is a prefix;
\* for every other input the result is not "N" and is the longest canonical
\* root that is a prefix of the alias-resolved input followed by a quality.
C7_RootResolution ==
    normalized.set =>
        IF RootRecognised(chordArg)
        THEN /\ normalized.val # NoChord
             /\ \E j \in 1..Len(QUALITIES) :
                    normalized.val =
                        LongestRootPrefix(ResolveAlias(chordArg)) \o QUALITIES[j]
        ELSE normalized.val = NoChord

C7_Witness ==
    /\ normalized.set
    /\ StartsWith(chordArg, <<"C", "#">>)
    /\ StartsWith(normalized.val, <<"C", "#">>)

\* C8: for an input that starts with an alias spelling, alias resolution
\* replaces exactly that prefix and the result of normalize_chord is the
\* canonical root followed by the quality of the text after the alias; an
\* input that does not start with an alias is left as it is, wherever else
\* an alias spelling occurs in it.  For "Dbmin7" the result is "C#min7" and
\* encode returns a non-zero index that no other label of the table has.
C8_AliasPrefixOnly ==
    /\ \A i \in 1..Len(ROOT_ALIASES) :
           StartsWith(chordArg, ROOT_ALIASES[i].alias) =>
               LET x == DropPrefix(chordArg, Len(ROOT_ALIASES[i].alias))
               IN  /\ ResolveAlias(chordArg) = ROOT_ALIASES[i].canonical \o x
                   /\ normalized.set =>
                          normalized.val =
                              ROOT_ALIASES[i].canonical \o QualityOf(x)
    /\ (\A i \in 1..Len(ROOT_ALIASES) :
            ~StartsWith(chordArg, ROOT_ALIASES[i].alias))
           => ResolveAlias(chordArg) = chordArg
    /\ chordArg = <<"D", "b", "m", "i", "n", "7">> =>
           /\ normalized.set =>
                  normalized.val = <<"C", "#", "m", "i", "n", "7">>
           /\ encoded.set =>
                  /\ encoded.val # 0
                  /\ \A c \in DOMAIN chord_to_idx :
                         c # <<"C", "#", "m", "i", "n", "7">>
                             => chord_to_idx[c] # encoded.val

C8_Witness ==
    /\ chordArg = <<"D", "b", "m", "i", "n", "7">>
    /\ normalized.set /\ normalized.val = <<"C", "#", "m", "i", "n", "7">>
    /\ encoded.set /\ encoded.val = 15

(***************************************************************************)
(* Properties of predict_audio, get_segment_features and                   *)
(* generate_waveform_data.                                                 *)
(***************************************************************************)
\* the number of samples len as a multiple of 2^-FracBits
Samples(len) == BShl(BFromInt(len), FracBits)

\* n = floor(a / b) for the real quotient of two naturals
IsFloorOfQuotient(n, a, b) ==
    /\ BCmp(BMulSmall(b, n), a) # 1
    /\ BCmp(BMulSmall(b, n + 1), a) = 1

\* the float quotient a / b, which is below m >= 1, rounds up to m: it is no
\* further from m than half the spacing of the floats below m
QuotientRoundsUpTo(m, a, b) ==
    LET shift == MantBits - (IntBitLen(m - 1) - 1)
    IN  BCmp(BShl(a, shift),
             BMul(b, BSub(BShl(BFromInt(m), shift), << 1 >>))) # 0 - 1

\* n is floor(total_duration / h) in one of its readings: the quotient of
\* the reals len(audio) / sample_rate and h, the real quotient of the floats
\* duration and h, or the float quotient duration / h
IsFloorOfDurationByHop(n) ==
    \/ IsFloorOfQuotient(n, Samples(audioLen),
                         BMulSmall(hop_duration.mag, sample_rate))
    \/ IsFloorOfQuotient(n, duration.mag, hop_duration.mag)
    \/ /\ n >= 1
       /\ IsFloorOfQuotient(n - 1, duration.mag, hop_duration.mag)
       /\ QuotientRoundsUpTo(n, duration.mag, hop_duration.mag)

\* C1: when predict_audio returns, the number of events is
\* floor(total_duration / h) for total_duration = len(audio) / sample_rate,
\* the k-th event, counted from 0, has timestamp k*h (the float product),
\* and the timestamps increase strictly.
C1_EventCountAndTimestamps ==
    ppc = "done" =>
        LET n == Len(predictions)
        IN  /\ IsFloorOfDurationByHop(n)
            /\ \A k \in 1..n :
                   predictions[k].timestamp = FMul(FInt(k - 1), hop_duration)
            /\ \A k \in 1..(n - 1) :
                   FLt(predictions[k].timestamp, predictions[k + 1].timestamp)

\* C9: get_segment_features returns None exactly when start_time < 0, or
\* start_time + duration > len(audio) / sample_rate, or the signal is
\* shorter than 90% of the requested window, each compared as real numbers
\* (so also when off by less than a sample period); otherwise a tensor.
C9_AbsentExactlyOutsideSignal ==
    segResult.called =>
        LET d          == EffectiveDuration(segDuration)
            finish     == ExactAdd(segStart, d)
            negative   == segStart.neg
            overshoot  ==
                /\ ~finish.neg
                /\ BCmp(BMulSmall(finish.mag, sample_rate),
                        Samples(segAudioLen)) = 1
            tooShort   ==
                BCmp(BMulSmall(Samples(segAudioLen), 10),
                     BMulSmall(BMulSmall(d.mag, 9), sample_rate)) = 0 - 1
        IN  segResult.absent <=> (negative \/ overshoot \/ tooShort)

\* C10: when generate_waveform_data returns, its num_points buckets
\* partition the signal: every sample index in [0, len(audio)) lies in
\* exactly one bucket, the remainder of len(audio) // num_points included.
C10_BucketsCoverEverySample ==
    wpc = "done" =>
        /\ Len(buckets) = num_points
        /\ \A smp \in 0..(wavAudioLen - 1) :
               Cardinality({k \in 1..Len(buckets) :
                   buckets[k].start <= smp /\ smp < buckets[k].end}) = 1

\* C11: generate_waveform_data never raises, and when it returns there are
\* exactly num_points points, each with an amplitude in [5, 100] (amplitudes
\* are held in hundredths).
C11_PointCountAndAmplitude ==
    /\ wpc # "raised"
    /\ wpc = "done" =>
           /\ Len(waveform_data) = num_points
           /\ \A k \in 1..Len(waveform_data) :
                  /\ waveform_data[k].amplitude >= 500
                  /\ waveform_data[k].amplitude <= 10000

\* C17: when generate_waveform_data returns for num_points >= 1, the times
\* are non-decreasing in i, the first is 0, and every time lies in
\* [0, total_duration) (for an empty signal, where that interval is empty,
\* a time of 0 is accepted).
C17_TimesWithinDuration ==
    (wpc = "done" /\ num_points >= 1) =>
        /\ waveform_data[1].time = FZero
        /\ \A k \in 1..(Len(waveform_data) - 1) :
               FLe(waveform_data[k].time, waveform_data[k + 1].time)
        /\ \A k \in 1..Len(waveform_data) :
               /\ ~waveform_data[k].time.neg
               /\ \/ FLt(waveform_data[k].time, wavDuration)
                  \/ wavDuration = FZero /\ waveform_data[k].time = FZero

\* C12: every event of predict_audio carries a confidence in [0, 1].
C12_ConfidenceIsProbability ==
    \A k \in 1..Len(predictions) :
        /\ FLe(FZero, predictions[k].confidence)
        /\ FLe(predictions[k].confidence, FInt(1))

\* the events of predict_audio whose window get_segment_features reports
\* absent
AbsentEvents ==
    {k \in 1..Len(predictions) :
        get_segment_features(audioLen, predictions[k].timestamp,
                             hop_duration).absent}

\* C14: a direct predict_segment call on a window that
\* get_segment_features reports absent returns ("N", 0.0) without invoking
\* the classifier.  In predict_audio an event whose window is absent is
\* (t, "N", 0); when predict_audio has returned, the classifier has been
\* invoked once for each of the other events and never for an absent
\* window, the run went on after every window (the next event is at
\* t + hop_duration), and the loop condition has failed.
C14_AbsentSegmentIsSentinelEvent ==
    /\ (/\ psResult.called
        /\ get_segment_features(segAudioLen, segStart, segDuration).absent)
           => /\ psResult.chord = NoChord
              /\ psResult.confidence = FZero
              /\ ~psResult.invoked
    /\ ppc = "done" =>
           /\ \A k \in AbsentEvents :
                  /\ predictions[k].chord = NoChord
                  /\ predictions[k].confidence = FZero
           /\ Len(classified) = Len(predictions) - Cardinality(AbsentEvents)
           /\ \A k \in 1..(Len(predictions) - 1) :
                  predictions[k + 1].timestamp =
                      FAdd(predictions[k].timestamp, hop_duration)
           /\ ~LoopGuard

C14_Witness ==
    /\ psResult.called
    /\ get_segment_features(segAudioLen, segStart, segDuration).absent
    /\ segAudioLen > 0
    /\ psResult.chord = NoChord

\* n is the integer nearest to the finite float x, the even one of the two
\* when x is halfway between them
IsNearestInteger(n, x) ==
    LET twice == ExactAdd(ExactAdd(x, x), FNeg(FInt(2 * n)))
        c     == BCmp(twice.mag, FInt(1).mag)
    IN  c # 1 /\ (c = 0 => n % 2 = 0)

\* the tracker gives no usable tempo: it raises, or the tempo it returns
\* is an empty array, a nan or an infinity
NoUsableTempo ==
    \/ bpmTracker.kind = "raises"
    \/ bpmTracker.tempo = << >>
    \/ bpmTracker.tempo[1].cls \in {"nan", "inf"}

\* C15: estimate_bpm never raises; it returns 120 when the tracker gives
\* no usable tempo, and otherwise the integer nearest to the tempo (the
\* first one of an array), which is >= 0.
C15_BpmFallback ==
    bpmResult.called =>
        /\ ~bpmResult.raised
        /\ NoUsableTempo => bpmResult.val = 120
        /\ ~NoUsableTempo =>
               /\ IsNearestInteger(bpmResult.val, bpmTracker.tempo[1].val)
               /\ bpmResult.val >= 0

C15_Witness ==
    /\ bpmResult.called
    /\ bpmTracker.kind = "array"
    /\ Len(bpmTracker.tempo) = 1
    /\ bpmTracker.tempo[1].cls = "nan"
    /\ bpmResult.val = 120

\* C16: a vocabulary loaded from the file that save wrote has the
\* chord_to_idx, the idx_to_chord (with integer keys) and the num_classes
\* of the saved vocabulary, and encode and decode on it return what they
\* return on the saved one.
C16_SaveLoadRoundTrip ==
    /\ loaded.done =>
           /\ loaded.chord_to_idx = chord_to_idx
           /\ loaded.idx_to_chord = idx_to_chord
           /\ loaded.num_classes = num_classes
    /\ loadedEncoded.set => loadedEncoded.val = encode(chordArg)
    /\ loadedDecoded.set => loadedDecoded.val = decode(loadedDecoded.arg)

C16_Witness ==
    /\ vocabFile.written
    /\ loaded.done
    /\ loadedEncoded.set /\ loadedEncoded.val = 15
    /\ loadedDecoded.set /\ loadedDecoded.arg = 96
    /\ loadedDecoded.val = << "B", "d", "i", "m", "7" >>

(***************************************************************************)
(* Properties of upload_audio.                                             *)
(***************************************************************************)
\* the filename ends, after its last dot, in one of mp3, wav, flac, aiff,
\* ogg, m4a, in any case
HasListedExtension(filename) ==
    \E i \in 1..Len(filename) :
        /\ filename[i] = "."
        /\ \A j \in (i + 1)..Len(filename) : filename[j] # "."
        /\ Lower(SubSeq(filename, i + 1, Len(filename))) \in
               {<< "m", "p", "3" >>, << "w", "a", "v" >>,
                << "f", "l", "a", "c" >>, << "a", "i", "f", "f" >>,
                << "o", "g", "g" >>, << "m", "4", "a" >>}

\* the classifier's probability for the window of the event at time ts,
\* 0.0 for an absent window
WindowProbability(ts) ==
    PredictFeatures(get_segment_features(audioLen, ts, hop_duration)).confidence

\* C13: every entry of the chord_list that upload_audio hands to
\* create_predictions, stores and returns has as confidence the
\* probability of its window times 100 rounded to one decimal, which lies
\* in [0, 100] and is 0 for an absent window; the stored and the returned
\* chords are that chord_list.
C13_ConfidenceIsPercentage ==
    /\ \A k \in 1..Len(chord_list) :
           /\ chord_list[k].confidence =
                  RoundDecimal(FMul(WindowProbability(chord_list[k].timestamp),
                                    FInt(100)), 10)
           /\ FLe(FZero, chord_list[k].confidence)
           /\ FLe(chord_list[k].confidence, FInt(100))
           /\ get_segment_features(audioLen, chord_list[k].timestamp,
                                   hop_duration).absent
                  => chord_list[k].confidence = FZero
    /\ prediction_table # << >> => prediction_table[TrackId] = chord_list
    /\ upResponse.status = 200 => upResponse.chords = chord_list

C13_Witness ==
    /\ upResponse.status = 200
    /\ Len(upResponse.chords) = 2
    /\ prediction_table # << >>
    /\ \E k \in 1..2 : FLt(FInt(50), upResponse.chords[k].confidence)

\* C18: a request whose filename has no listed extension never gets past
\* the checks: the payload is not read, no object is stored, no track or
\* prediction record is written, nothing is decoded and the predictor is
\* not run; it ends with status 400, with the format error when there is a
\* filename.
C18_RejectedBeforeCore ==
    ~HasListedExtension(upFilename) =>
        /\ upc \in {"idle", "start", "done"}
        /\ ~payloadRead
        /\ s3_objects = {}
        /\ track_table = << >>
        /\ prediction_table = << >>
        /\ ~audioDecoded
        /\ ppc = "idle"
        /\ upc = "done" =>
               /\ upResponse.status = 400
               /\ upFilename # << >> =>
                      upResponse.detail = "File type not allowed"

\* C18 as stated: every request whose filename has no listed extension ends
\* with the format error, the request without a filename included.
C18_FormatErrorAlways ==
    (~HasListedExtension(upFilename) /\ upc = "done") =>
        /\ upResponse.status = 400
        /\ upResponse.detail = "File type not allowed"

C18_Witness ==
    /\ upFilename = << "a", ".", "m", "p", "3", ".", "e", "x", "e" >>
    /\ upc = "done"
    /\ upResponse.status = 400
    /\ ~payloadRead

\* C19: when the request ends because decoding, prediction or the
\* persistence of the predictions failed, the caller gets the error and
\* nothing the request created is left: no stored object, no track record
\* and no prediction record.
C19_NoPartialStateAfterAbort ==
    (upc = "done" /\ upFault \in {"decode", "predict", "create_predictions"}
        /\ HasListedExtension(upFilename)) =>
        /\ upResponse.status = 500
        /\ s3_objects = {}
        /\ track_table = << >>
        /\ prediction_table = << >>

(***************************************************************************)
(* Properties of the windows of predict_audio.                             *)
(***************************************************************************)
\* int(k * h * sr): the sample at which the k-th multiple of the hop falls
HopSample(k) ==
    FTrunc(FMul(FMul(FInt(k), hop_duration), FInt(sample_rate)))

\* C20: when predict_audio has returned, window k (from 0) handed to the
\* classifier is the sample range [int(k*h*sr), int((k+1)*h*sr)), each
\* window ends where the next one starts, and the samples left after the
\* last window are fewer than one hop's worth.
C20_WindowsTile ==
    ppc = "done" =>
        /\ \A k \in 1..Len(classified) :
               /\ classified[k].start = HopSample(k - 1)
               /\ classified[k].end = HopSample(k)
        /\ \A k \in 1..(Len(classified) - 1) :
               classified[k].end = classified[k + 1].start
        /\ Len(classified) > 0 =>
               FLt(FInt(audioLen - classified[Len(classified)].end),
                   FMul(hop_duration, FInt(sample_rate)))

(***************************************************************************)
(* Further properties of normalize_chord and encode.                       *)
(***************************************************************************)
\* C23: every class index of the table is the encoding of some input
\* string: for each index from 0 to num_classes - 1 there is a string s
\* with encode(s) equal to it.
C23_EveryClassEncoded ==
    \A k \in 0..(num_classes - 1) : \E s \in ChordInputs : encode(s) = k

\* C24: normalize_chord is idempotent: normalizing what normalize_chord
\* returned gives it back unchanged.
C24_NormalizeIdempotent ==
    normalized.set => normalize_chord(normalized.val) = normalized.val

\* C25: an input that begins with an alias normalizes to the same label as
\* the input with the alias replaced by its canonical root.
C25_AliasInterchangeable ==
    normalized.set =>
        \A i \in 1..Len(ROOT_ALIASES) :
            StartsWith(chordArg, ROOT_ALIASES[i].alias) =>
                normalized.val =
                    normalize_chord(ROOT_ALIASES[i].canonical \o
                        DropPrefix(chordArg, Len(ROOT_ALIASES[i].alias)))

(***************************************************************************)
(* Further properties of the loop of predict_audio.                        *)
(***************************************************************************)
\* the window of the inputs at time ts
WindowAt(ts) == get_segment_features(audioLen, ts, hop_duration)

\* C26: inside predict_audio the absent path is never taken: when the loop
\* guard holds the window at t is a tensor whose sample bounds lie in the
\* signal and whose length is at least int(h * sr * 0.9), every emitted
\* event comes from a classifier invocation, and there are as many
\* invocations as events.
C26_AbsentPathNeverTaken ==
    /\ (ppc = "loop" /\ LoopGuard) =>
           /\ ~WindowAt(t).absent
           /\ 0 <= WindowAt(t).start
           /\ WindowAt(t).end <= audioLen
           /\ WindowAt(t).end - WindowAt(t).start >=
                  FTrunc(FMul(FMul(hop_duration, FInt(sample_rate)),
                              FRatio(9, 10)))
    /\ ppc \in {"loop", "done"} =>
           /\ Len(classified) = Len(predictions)
           /\ \A k \in 1..Len(predictions) :
                  ~WindowAt(predictions[k].timestamp).absent

\* the run has ended with a last window that ends on the last sample
C26_Witness ==
    /\ ppc = "done"
    /\ upc = "idle"
    /\ Len(predictions) >= 3
    /\ classified[Len(classified)].end = audioLen
    /\ Len(classified) = Len(predictions)

\* the largest digit d in lo..hi with bs * d <= a
RECURSIVE DigitSearch(_, _, _, _)
DigitSearch(a, bs, lo, hi) ==
    IF lo = hi THEN lo
    ELSE IF BCmp(BMulSmall(bs, (lo + hi + 1) \div 2), a) <= 0
    THEN DigitSearch(a, bs, (lo + hi + 1) \div 2, hi)
    ELSE DigitSearch(a, bs, lo, (lo + hi + 1) \div 2 - 1)

\* quotient (digits below position i still to come, q those found) and
\* remainder of a by b > 0, one limb at a time, a < b * LimbBase^(i + 1)
RECURSIVE BDivFrom(_, _, _, _)
RECURSIVE BDivStep(_, _, _, _, _)
BDivStep(a, b, i, q, d) ==
    BDivFrom(BSub(a, BMulSmall(BNorm(Zeros(i) \o b), d)), b, i - 1,
             << d >> \o q)

BDivFrom(a, b, i, q) ==
    IF i < 0 THEN [q |-> BNorm(q), r |-> a]
    ELSE BDivStep(a, b, i, q,
                  DigitSearch(a, BNorm(Zeros(i) \o b), 0, LimbBase - 1))

\* x / y for floats x >= 0 and y > 0 whose quotient is at least 2^-25
FDiv(x, y) ==
    LET a  == BShl(x.mag, FracBits)
        d  == BDivFrom(a, y.mag, Max(Len(a) - Len(y.mag), 0), << >>)
        q2 == BAdd(BShl(d.q, 1), IF d.r = << >> THEN << >> ELSE << 1 >>)
    IN  [neg |-> FALSE, mag |-> BShr(RoundMant(q2), 1)]

\* C27: t strictly increases on every iteration, and when predict_audio has
\* returned the loop has run at most floor(total_duration / h) times, the
\* quotient taken either as the real quotient of the two floats
\* ((number of iterations) * h <= total_duration) or as their float
\* quotient.
C27_IterationsWithinFloor ==
    /\ (ppc = "loop" /\ LoopGuard) => FLt(t, FAdd(t, hop_duration))
    /\ ppc = "done" =>
           \/ BCmp(BMulSmall(hop_duration.mag, Len(predictions)),
                   duration.mag) <= 0
           \/ Len(predictions) <= FTrunc(FDiv(duration, hop_duration))

\* C29: a track record stored with status "completed" belongs to a request
\* whose predict_audio call has returned and whose predictions have been
\* handed to create_predictions without a failure.
C29_CompletedAfterPrediction ==
    (track_table # << >> /\ track_table[TrackId].status = "completed") =>
        /\ ppc = "done"
        /\ upc \in {"respond", "done"}
        /\ upResponse.status # 500

(***************************************************************************)
(* Properties of the process: the event loop, the predictor global and     *)
(* the tables.                                                             *)
(***************************************************************************)
\* the requests that are inside predict_audio
InPredictAudio == {r \in DOMAIN coroutines : coroutines[r].inside}

\* C21: at most one predict_audio invocation is in progress at any time,
\* the request inside it is the one that has the event loop, and the loop
\* passes of two requests never interleave: the passes of a request are
\* contiguous in the order in which passes were made.
C21_OnePredictAudioAtATime ==
    /\ Cardinality(InPredictAudio) <= 1
    /\ \A r \in InPredictAudio : running = r
    /\ \A i \in 1..Len(passes), k \in 1..Len(passes) :
           (i < k /\ passes[i] = passes[k]) =>
               \A j \in i..k : passes[j] = passes[i]

\* two requests have run predict_audio to its end, two passes each, and one
\* of them was suspended at an await while the other ran its loop
C21_Witness ==
    /\ Len(passes) = 4
    /\ \A r \in DOMAIN coroutines :
           Statements[coroutines[r].pc] = "return" /\ coroutines[r].done = 2
    /\ passes[1] = 2 /\ passes[4] = 1

\* C22: after any sequence of load_model and get_predictor calls at most
\* one ChordPredictor has been constructed, exactly one once a call has
\* returned; every call that returns returns that one instance, which is the
\* global, and never None.
C22_LoadedOnce ==
    /\ constructed <= 1
    /\ \A k \in 1..Len(returns) :
           ~returns[k].raised =>
               /\ constructed = 1
               /\ returns[k].val # None
               /\ returns[k].val = _predictor
               /\ \A j \in 1..Len(returns) :
                      ~returns[j].raised => returns[j].val = returns[k].val

\* a constructor that raised, then calls of both functions that returned
C22_Witness ==
    /\ Len(returns) >= 4
    /\ returns[1].raised
    /\ returns[2].fn = "get_predictor" /\ ~returns[2].raised
    /\ returns[3].fn = "load_model" /\ ~returns[3].raised
    /\ returns[4].fn = "get_predictor" /\ returns[4].val = 1

\* C28: every track deletion was made by a request of the user who owns
\* the track.
C28_DeletedByOwnerOnly ==
    \A d \in removed : d.by = d.owner

\* C30: every stored playlist's track_ids lists exactly the stored tracks
\* whose playlist_id is that playlist, each once, and a returned
\* track_count equals the number of tracks returned with it.
C30_TrackIdsMatchTracks ==
    /\ \A p \in DOMAIN playlists :
           /\ {playlists[p].track_ids[k] :
                   k \in 1..Len(playlists[p].track_ids)}
                  = get_playlist_tracks(p)
           /\ Len(playlists[p].track_ids) = Cardinality(get_playlist_tracks(p))
    /\ "track_count" \in DOMAIN reply =>
           reply.track_count = Cardinality(reply.tracks)

============================================================================
